---------------------------- MODULE Spec2Model ----------------------------
(***************************************************************************)
(* Model of Operating_Systems/ch10/virtual_memory_simulator.py:            *)
(*   - MemoryManager / DemandPagingSimulator (demand paging, six           *)
(*     replacement algorithms, run_simulation, plot_page_faults_vs_frames) *)
(*   - CopyOnWriteSimulator (fork_process, write_to_page)                  *)
(*   - BuddySystemAllocator (allocate, free)                               *)
(*   - WorkingSetSimulator and SlabAllocator                               *)
(* Python dicts keep insertion order, and the replacement algorithms       *)
(* iterate over them, so a dict is a sequence of key/value records here.   *)
(***************************************************************************)
EXTENDS Integers, Sequences, FiniteSets, TLC

VARIABLES
    sim,               \* one DemandPagingSimulator driven by direct calls
    run,               \* position of a run_simulation call on sim
    reference_string,  \* ref_string of the comparison driver
    step,              \* number of references the comparison driver has issued
    sims,              \* the driver's simulators, by <<driver, algorithm, frames>>
    cow,               \* a CopyOnWriteSimulator: shared_pages, process_pages
    cow_last,          \* the last CopyOnWriteSimulator call and the number of calls
    buddy,             \* a BuddySystemAllocator
    buddy_last,        \* the last BuddySystemAllocator call and the number of calls
    ws,                \* a WorkingSetSimulator
    ws_last,           \* the last WorkingSetSimulator call
    slabs,             \* a SlabAllocator and the slab objects it created
    slab_last          \* the last SlabAllocator call and the number of calls

vars == <<sim, run, reference_string, step, sims, cow, cow_last, buddy, buddy_last,
          ws, ws_last, slabs, slab_last>>

pagingVars == <<sim, run>>
driverVars == <<reference_string, step, sims>>
cowVars == <<cow, cow_last>>
buddyVars == <<buddy, buddy_last>>
wsVars == <<ws, ws_last>>
slabVars == <<slabs, slab_last>>

(***************************************************************************)
(* Bounds                                                                  *)
(***************************************************************************)
MaxPage == 2          \* direct calls reference pages 0..MaxPage
MaxFrames == 2        \* the directly driven simulator has 0..MaxFrames frames
MaxAccesses == 4      \* cap on memory_accesses of the directly driven simulator
MaxRunLen == 2        \* longest reference string passed to run_simulation on it
MaxRefLen == 4        \* longest reference string generated for the comparison driver
MaxPid == 3           \* process ids 1..MaxPid
MaxCowPage == 1       \* virtual pages 0..MaxCowPage of the copy-on-write processes
MaxCowCalls == 4      \* cap on the number of fork_process / write_to_page calls
MaxMemory == 4        \* largest total_memory a buddy allocator is constructed with
MaxBuddyCalls == 7    \* cap on the number of allocate / free calls
MaxWsFrames == 2      \* a working-set tracker has 0..MaxWsFrames frames
MaxWsPid == 2         \* tracked process ids 1..MaxWsPid
MaxLocality == 2      \* add_process is called with locality_size 0..MaxLocality
MaxTime == 5          \* cap on WorkingSetSimulator.time
MaxWindowLocality == 4 \* locality_size 0..MaxWindowLocality of the single tracked process

Pages == 0..MaxPage

(***************************************************************************)
(* Generic helpers                                                         *)
(***************************************************************************)
\* Python None
None == -1

Range(seq) == {seq[i] : i \in 1..Len(seq)}

\* list.index(x): 0-based position of the first occurrence
index(seq, x) ==
    (CHOOSE i \in 1..Len(seq) : seq[i] = x /\ \A j \in 1..(i - 1) : seq[j] # x) - 1

RECURSIVE insort(_, _)
insort(seq, x) ==
    IF seq = <<>> THEN <<x>>
    ELSE IF x <= Head(seq) THEN <<x>> \o seq
    ELSE <<Head(seq)>> \o insort(Tail(seq), x)

\* list.sort()
RECURSIVE sort(_)
sort(seq) == IF seq = <<>> THEN <<>> ELSE insort(sort(Tail(seq)), Head(seq))

\* list.remove(x): drops the first occurrence
RECURSIVE remove(_, _)
remove(seq, x) ==
    IF seq = <<>> THEN <<>>
    ELSE IF Head(seq) = x THEN Tail(seq)
    ELSE <<Head(seq)>> \o remove(Tail(seq), x)

\* all sequences over S of length 0..n
SeqsUpTo(S, n) == UNION {[1..k -> S] : k \in 0..n}

(***************************************************************************)
(* PageTableEntry, MemoryManager                                           *)
(***************************************************************************)
Algorithms == {"FIFO", "OPTIMAL", "LRU", "CLOCK", "LFU", "MFU"}

PageTableEntry(page_number) ==
    [page_number |-> page_number, valid |-> FALSE, referenced |-> FALSE,
     modified |-> FALSE, frame_number |-> None, last_access_time |-> 0,
     access_count |-> 0]

\* DemandPagingSimulator.__init__ on top of MemoryManager.__init__.
\* allocated_frames is the dict frame -> entry in insertion order; the entry
\* is the object held by page_table, so it is kept as its page number.
\* raised records an exception that left the last call ("" = none).
DemandPagingSimulator(total_frames, algorithm) ==
    [total_frames |-> total_frames,
     free_frames |-> [i \in 1..total_frames |-> i - 1],
     allocated_frames |-> <<>>,
     page_faults |-> 0,
     memory_accesses |-> 0,
     algorithm |-> algorithm,
     page_table |-> <<>>,
     access_history |-> <<>>,
     fifo_queue |-> <<>>,
     lru_counter |-> 0,
     clock_hand |-> 0,
     raised |-> ""]

\* keys / values of allocated_frames in iteration order
frames_of(s) == [i \in 1..Len(s.allocated_frames) |-> s.allocated_frames[i].frame]
pages_of(s) == [i \in 1..Len(s.allocated_frames) |-> s.allocated_frames[i].page]

\* dict assignment d[frame] = page: in place if the key exists, else appended
dict_set(d, frame, page) ==
    IF \E i \in 1..Len(d) : d[i].frame = frame
    THEN [i \in 1..Len(d) |-> IF d[i].frame = frame
                              THEN [frame |-> frame, page |-> page] ELSE d[i]]
    ELSE Append(d, [frame |-> frame, page |-> page])

\* del d[frame]
dict_del(d, frame) == SelectSeq(d, LAMBDA e : e.frame # frame)

\* allocate_frame that reads the first free frame without removing it
allocate_frame_nopop(s, page) ==
    LET frame == Head(s.free_frames)
    IN [s EXCEPT !.allocated_frames = dict_set(@, frame, page),
                 !.page_table[page].frame_number = frame,
                 !.page_table[page].valid = TRUE]

\* MemoryManager.allocate_frame, called with a non-empty free list
\* (the MemoryError branch is the caller's ELSE in handle_page_fault)
allocate_frame(s, page) ==
    LET frame == Head(s.free_frames)
    IN [s EXCEPT !.free_frames = Tail(@),
                 !.allocated_frames = dict_set(@, frame, page),
                 !.page_table[page].frame_number = frame,
                 !.page_table[page].valid = TRUE]

\* free_frame that releases the frame and leaves the page marked valid
free_frame_keep_valid(s, frame) ==
    LET owned == \E i \in 1..Len(s.allocated_frames) : s.allocated_frames[i].frame = frame
        page == (CHOOSE e \in Range(s.allocated_frames) : e.frame = frame).page
        s1 == IF owned
              THEN [s EXCEPT !.page_table[page].frame_number = None,
                             !.allocated_frames = dict_del(@, frame)]
              ELSE s
    IN [s1 EXCEPT !.free_frames = sort(Append(@, frame))]

\* free_frame that clears the valid bit but leaves the entry's frame_number
free_frame_stale(s, frame) ==
    LET owned == \E i \in 1..Len(s.allocated_frames) : s.allocated_frames[i].frame = frame
        page == (CHOOSE e \in Range(s.allocated_frames) : e.frame = frame).page
        s1 == IF owned
              THEN [s EXCEPT !.page_table[page].valid = FALSE,
                             !.allocated_frames = dict_del(@, frame)]
              ELSE s
    IN [s1 EXCEPT !.free_frames = sort(Append(@, frame))]

\* MemoryManager.free_frame
free_frame(s, frame) ==
    LET owned == \E i \in 1..Len(s.allocated_frames) : s.allocated_frames[i].frame = frame
        page == (CHOOSE e \in Range(s.allocated_frames) : e.frame = frame).page
        s1 == IF owned
              THEN [s EXCEPT !.page_table[page].valid = FALSE,
                             !.page_table[page].frame_number = None,
                             !.allocated_frames = dict_del(@, frame)]
              ELSE s
    IN [s1 EXCEPT !.free_frames = sort(Append(@, frame))]

(***************************************************************************)
(* Replacement algorithms.  Each returns [s, victim, raised]: the          *)
(* simulator after the selection, the victim's page number (None for       *)
(* Python None) and the exception raised, if any.                          *)
(***************************************************************************)
\* fifo_replacement that takes the newest page of the queue (pop for popleft)
fifo_replacement_newest(s) ==
    LET q == IF s.fifo_queue = <<>> THEN pages_of(s) ELSE s.fifo_queue
    IN IF q = <<>>
       THEN [s |-> s, victim |-> None, raised |-> "IndexError"]
       ELSE [s |-> [s EXCEPT !.fifo_queue = SubSeq(q, 1, Len(q) - 1)],
             victim |-> q[Len(q)], raised |-> ""]

\* DemandPagingSimulator.fifo_replacement
fifo_replacement(s) ==
    LET q == IF s.fifo_queue = <<>> THEN pages_of(s) ELSE s.fifo_queue
    IN IF q = <<>>
       THEN [s |-> s, victim |-> None, raised |-> "IndexError"]
       ELSE [s |-> [s EXCEPT !.fifo_queue = Tail(q)], victim |-> Head(q), raised |-> ""]

\* the for loop of optimal_replacement from position i on
RECURSIVE optimal_loop(_, _, _, _)
optimal_loop(s, i, max_future_distance, victim_page) ==
    LET current_pages == pages_of(s)
        future_accesses == s.access_history
    IN IF i > Len(current_pages)
       THEN IF victim_page # None
            THEN [s |-> s, victim |-> victim_page, raised |-> ""]
            ELSE IF current_pages # <<>>
                 THEN [s |-> s, victim |-> current_pages[1], raised |-> ""]
                 ELSE [s |-> s, victim |-> None, raised |-> "IndexError"]
       ELSE LET page == current_pages[i]
            IN IF page \notin Range(future_accesses)
               THEN [s |-> s, victim |-> page, raised |-> ""]
               ELSE LET next_use == index(future_accesses, page)
                    IN IF next_use > max_future_distance
                       THEN optimal_loop(s, i + 1, next_use, page)
                       ELSE optimal_loop(s, i + 1, max_future_distance, victim_page)

\* DemandPagingSimulator.optimal_replacement
optimal_replacement(s) == optimal_loop(s, 1, -1, None)

\* the for loop of lru_replacement; lru_page = None stands for oldest_time = inf
RECURSIVE lru_loop(_, _, _, _)
lru_loop(s, i, oldest_time, lru_page) ==
    IF i > Len(s.allocated_frames) THEN lru_page
    ELSE LET page == pages_of(s)[i]
             t == s.page_table[page].last_access_time
         IN IF lru_page = None \/ t < oldest_time
            THEN lru_loop(s, i + 1, t, page)
            ELSE lru_loop(s, i + 1, oldest_time, lru_page)

\* lru_replacement with the comparison reversed: the most recently used page
RECURSIVE mru_loop(_, _, _, _)
mru_loop(s, i, newest_time, mru_page) ==
    IF i > Len(s.allocated_frames) THEN mru_page
    ELSE LET page == pages_of(s)[i]
             t == s.page_table[page].last_access_time
         IN IF mru_page = None \/ t > newest_time
            THEN mru_loop(s, i + 1, t, page)
            ELSE mru_loop(s, i + 1, newest_time, mru_page)

lru_replacement_mru(s) == [s |-> s, victim |-> mru_loop(s, 1, 0, None), raised |-> ""]

\* DemandPagingSimulator.lru_replacement
lru_replacement(s) == [s |-> s, victim |-> lru_loop(s, 1, 0, None), raised |-> ""]

\* the while loop of clock_replacement with a hand that advances without
\* wrapping around; frames[clock_hand] past the end raises IndexError
RECURSIVE clock_loop_no_wrap(_)
clock_loop_no_wrap(s) ==
    LET frames == frames_of(s)
    IN IF s.clock_hand + 1 > Len(frames)
       THEN [s |-> s, victim |-> None, raised |-> "IndexError"]
       ELSE LET frame == frames[s.clock_hand + 1]
                page == (CHOOSE e \in Range(s.allocated_frames) : e.frame = frame).page
            IN IF ~s.page_table[page].referenced
               THEN [s |-> [s EXCEPT !.clock_hand = s.clock_hand + 1],
                     victim |-> page, raised |-> ""]
               ELSE clock_loop_no_wrap([s EXCEPT !.page_table[page].referenced = FALSE,
                                                 !.clock_hand = s.clock_hand + 1])

\* the while loop of clock_replacement
RECURSIVE clock_loop(_)
clock_loop(s) ==
    LET frames == frames_of(s)
        frame == frames[s.clock_hand + 1]
        page == (CHOOSE e \in Range(s.allocated_frames) : e.frame = frame).page
    IN IF ~s.page_table[page].referenced
       THEN [s |-> [s EXCEPT !.clock_hand = (s.clock_hand + 1) % Len(frames)],
             victim |-> page, raised |-> ""]
       ELSE clock_loop([s EXCEPT !.page_table[page].referenced = FALSE,
                                 !.clock_hand = (s.clock_hand + 1) % Len(frames)])

\* DemandPagingSimulator.clock_replacement
clock_replacement(s) ==
    IF frames_of(s) = <<>>
    THEN [s |-> s, victim |-> None, raised |-> ""]
    ELSE IF s.clock_hand + 1 > Len(s.allocated_frames)
         THEN [s |-> s, victim |-> None, raised |-> "IndexError"]
         ELSE clock_loop(s)

\* the for loop of lfu_replacement; lfu_page = None stands for min_accesses = inf
RECURSIVE lfu_loop(_, _, _, _)
lfu_loop(s, i, min_accesses, lfu_page) ==
    IF i > Len(s.allocated_frames) THEN lfu_page
    ELSE LET page == pages_of(s)[i]
             c == s.page_table[page].access_count
         IN IF lfu_page = None \/ c < min_accesses
            THEN lfu_loop(s, i + 1, c, page)
            ELSE lfu_loop(s, i + 1, min_accesses, lfu_page)

\* DemandPagingSimulator.lfu_replacement
lfu_replacement(s) == [s |-> s, victim |-> lfu_loop(s, 1, 0, None), raised |-> ""]

\* the for loop of mfu_replacement
RECURSIVE mfu_loop(_, _, _, _)
mfu_loop(s, i, max_accesses, mfu_page) ==
    IF i > Len(s.allocated_frames) THEN mfu_page
    ELSE LET page == pages_of(s)[i]
             c == s.page_table[page].access_count
         IN IF c > max_accesses
            THEN mfu_loop(s, i + 1, c, page)
            ELSE mfu_loop(s, i + 1, max_accesses, mfu_page)

\* DemandPagingSimulator.mfu_replacement
mfu_replacement(s) == [s |-> s, victim |-> mfu_loop(s, 1, -1, None), raised |-> ""]

\* DemandPagingSimulator.select_victim
select_victim(s) ==
    CASE s.algorithm = "FIFO" -> fifo_replacement(s)
      [] s.algorithm = "OPTIMAL" -> optimal_replacement(s)
      [] s.algorithm = "LRU" -> lru_replacement(s)
      [] s.algorithm = "CLOCK" -> clock_replacement(s)
      [] s.algorithm = "LFU" -> lfu_replacement(s)
      [] s.algorithm = "MFU" -> mfu_replacement(s)

\* replace_page that leaves the new page out of the FIFO queue
replace_page_no_enqueue(s, victim, new_page) ==
    IF victim = None THEN s
    ELSE LET s1 == free_frame(s, s.page_table[victim].frame_number)
         IN allocate_frame(s1, new_page)

\* replace_page that evicts the victim and returns before allocate_frame
replace_page_evict_only(s, victim, new_page) ==
    IF victim = None THEN s
    ELSE free_frame(s, s.page_table[victim].frame_number)

\* DemandPagingSimulator.replace_page (victim and new_page are page numbers)
replace_page(s, victim, new_page) ==
    IF victim = None THEN s
    ELSE LET s1 == free_frame(s, s.page_table[victim].frame_number)
             s2 == allocate_frame(s1, new_page)
         IN IF s.algorithm = "FIFO"
            THEN [s2 EXCEPT !.fifo_queue = Append(@, new_page)]
            ELSE s2

\* handle_page_fault that does not count the fault
handle_page_fault_uncounted(s, page) ==
    IF s.free_frames # <<>>
    THEN LET s2 == allocate_frame(s, page)
         IN IF s.algorithm = "FIFO"
            THEN [s2 EXCEPT !.fifo_queue = Append(@, page)]
            ELSE s2
    ELSE LET sel == select_victim(s)
         IN IF sel.raised # ""
            THEN [sel.s EXCEPT !.raised = sel.raised]
            ELSE replace_page(sel.s, sel.victim, page)

\* handle_page_fault that puts a page loaded into a free frame at the front
\* of the FIFO queue (appendleft for append)
handle_page_fault_push_front(s, page) ==
    LET s1 == [s EXCEPT !.page_faults = @ + 1]
    IN IF s1.free_frames # <<>>
       THEN LET s2 == allocate_frame(s1, page)
            IN IF s.algorithm = "FIFO"
               THEN [s2 EXCEPT !.fifo_queue = <<page>> \o @]
               ELSE s2
       ELSE LET sel == select_victim(s1)
            IN IF sel.raised # ""
               THEN [sel.s EXCEPT !.raised = sel.raised]
               ELSE replace_page(sel.s, sel.victim, page)

\* DemandPagingSimulator.handle_page_fault
handle_page_fault(s, page) ==
    LET s1 == [s EXCEPT !.page_faults = @ + 1]
    IN IF s1.free_frames # <<>>
       THEN LET s2 == allocate_frame(s1, page)
            IN IF s.algorithm = "FIFO"
               THEN [s2 EXCEPT !.fifo_queue = Append(@, page)]
               ELSE s2
       ELSE LET sel == select_victim(s1)
            IN IF sel.raised # ""
               THEN [sel.s EXCEPT !.raised = sel.raised]
               ELSE replace_page(sel.s, sel.victim, page)

\* access_page whose FIFO hit branch moves the page to the back of the queue
access_page_requeue(s, page_number, is_write) ==
    LET s0 == [s EXCEPT !.memory_accesses = @ + 1, !.raised = ""]
        s1 == IF page_number \in DOMAIN s0.page_table THEN s0
              ELSE [s0 EXCEPT !.page_table =
                       [p \in (DOMAIN @) \cup {page_number} |->
                           IF p = page_number THEN PageTableEntry(page_number) ELSE @[p]]]
        s2 == [s1 EXCEPT !.page_table[page_number].last_access_time = s1.lru_counter,
                         !.page_table[page_number].access_count = @ + 1,
                         !.page_table[page_number].referenced = TRUE,
                         !.page_table[page_number].modified = IF is_write THEN TRUE ELSE @]
    IN IF ~s2.page_table[page_number].valid
       THEN handle_page_fault(s2, page_number)
       ELSE IF s2.algorithm = "FIFO" /\ page_number \in Range(s2.fifo_queue)
            THEN [s2 EXCEPT !.fifo_queue = Append(remove(@, page_number), page_number)]
            ELSE s2

\* DemandPagingSimulator.access_page
access_page(s, page_number, is_write) ==
    LET s0 == [s EXCEPT !.memory_accesses = @ + 1, !.raised = ""]
        s1 == IF page_number \in DOMAIN s0.page_table THEN s0
              ELSE [s0 EXCEPT !.page_table =
                       [p \in (DOMAIN @) \cup {page_number} |->
                           IF p = page_number THEN PageTableEntry(page_number) ELSE @[p]]]
        s2 == [s1 EXCEPT !.page_table[page_number].last_access_time = s1.lru_counter,
                         !.page_table[page_number].access_count = @ + 1,
                         !.page_table[page_number].referenced = TRUE,
                         !.page_table[page_number].modified = IF is_write THEN TRUE ELSE @]
    IN IF ~s2.page_table[page_number].valid
       THEN handle_page_fault(s2, page_number)
       ELSE s2

\* memory_access_time and page_fault_service_time of print_statistics, in ns
memory_access_time == 200
page_fault_service_time == 8000000

\* a / b rounded to the nearest integer
round_div(a, b) == (2 * a + b) \div (2 * b)

\* eat = (1 - fault_rate) * access_time + fault_rate * fault_service_time with
\* fault_rate = faults / accesses, as {eat:.2f} prints it, in hundredths of a
\* ns.  Computed as access_time + faults * (fault_service_time - access_time)
\* / accesses, the quotient taken before the product to stay within 32 bits.
effective_access_time(accesses, faults, access_time, fault_service_time) ==
    LET d == 100 * (fault_service_time - access_time)
    IN 100 * access_time + faults * (d \div accesses)
       + round_div(faults * (d % accesses), accesses)

\* what print_statistics reports: the two counters and, when there was an
\* access, the effective access time; eat is None when it is not printed
print_statistics(s) ==
    [memory_accesses |-> s.memory_accesses,
     page_faults |-> s.page_faults,
     eat |-> IF s.memory_accesses > 0
             THEN effective_access_time(s.memory_accesses, s.page_faults,
                                        memory_access_time, page_fault_service_time)
             ELSE None]

(***************************************************************************)
(* One simulator driven by direct access_page calls and by run_simulation  *)
(***************************************************************************)
Idle == [active |-> FALSE, reference_string |-> <<>>, writes |-> <<>>, i |-> 0]

InitPaging ==
    /\ sim \in {DemandPagingSimulator(f, a) : f \in 0..MaxFrames, a \in Algorithms}
    /\ run = Idle

\* a direct call sim.access_page(page_number, is_write)
AccessPage(page_number, is_write) ==
    /\ ~run.active
    /\ sim.memory_accesses < MaxAccesses
    /\ sim' = access_page(sim, page_number, is_write)
    /\ UNCHANGED <<run, driverVars, cowVars, buddyVars, wsVars, slabVars>>

\* run_simulation up to its for loop
RunSimulation(ref, writes) ==
    /\ ~run.active
    /\ sim.memory_accesses + Len(ref) <= MaxAccesses
    /\ sim' = [sim EXCEPT !.access_history = ref, !.raised = ""]
    /\ run' = IF ref # <<>>
              THEN [active |-> TRUE, reference_string |-> ref, writes |-> writes, i |-> 0]
              ELSE Idle
    /\ UNCHANGED <<driverVars, cowVars, buddyVars, wsVars, slabVars>>

\* one iteration of the for loop of run_simulation; an exception leaves the loop
RunSimulationStep ==
    /\ run.active
    /\ LET page_num == run.reference_string[run.i + 1]
           is_write == IF run.writes # <<>> /\ run.i < Len(run.writes)
                       THEN run.writes[run.i + 1] ELSE FALSE
           s1 == access_page(sim, page_num, is_write)
       IN IF s1.raised # ""
          THEN /\ sim' = s1
               /\ run' = Idle
          ELSE /\ sim' = [s1 EXCEPT !.lru_counter = @ + 1]
               /\ run' = IF run.i + 1 < Len(run.reference_string)
                         THEN [run EXCEPT !.i = @ + 1] ELSE Idle
    /\ UNCHANGED <<driverVars, cowVars, buddyVars, wsVars, slabVars>>

NextPaging ==
    \/ \E p \in Pages, w \in BOOLEAN : AccessPage(p, w)
    \/ \E ref \in SeqsUpTo(Pages, MaxRunLen), writes \in {<<>>, <<TRUE>>} :
          RunSimulation(ref, writes)
    \/ RunSimulationStep

(***************************************************************************)
(* The comparison driver: the same reference string is fed to a FIFO, an   *)
(* LRU and an OPTIMAL simulator for every frame count, either through      *)
(* run_simulation (main) or through the access_page loops of               *)
(* plot_page_faults_vs_frames.                                             *)
(***************************************************************************)
\* reference string from the lecture (main, plot_page_faults_vs_frames)
Textbook == <<7,0,1,2,0,3,0,4,2,3,0,3,0,3,2,1,2,0,1,7,0,1>>
\* the reference string of the Belady's anomaly example
Belady == <<1,2,3,4,1,2,5,1,2,3,4,5>>

RefStrings == {Textbook, Belady} \cup SeqsUpTo(Pages, MaxRefLen)

DriverAlgorithms == {"FIFO", "LRU", "OPTIMAL"}
\* frame_counts = list(range(1, 8))
frame_counts == 1..7
Drivers == {"run_simulation", "plot_page_faults_vs_frames"}
Configs == Drivers \X DriverAlgorithms \X frame_counts

\* step = -1: simulators constructed; 0..Len: references issued so far
InitDriver ==
    /\ reference_string \in RefStrings
    /\ step = -1
    /\ sims = [c \in Configs |-> DemandPagingSimulator(c[3], c[2])]

\* run_simulation: access_history = reference_string.copy();
\* plot_page_faults_vs_frames: opt.access_history = ref_string.copy()
DriverStart ==
    /\ step = -1
    /\ step' = 0
    /\ sims' = [c \in Configs |->
                  IF c[1] = "run_simulation" \/ c[2] = "OPTIMAL"
                  THEN [sims[c] EXCEPT !.access_history = reference_string]
                  ELSE sims[c]]
    /\ UNCHANGED <<reference_string, pagingVars, cowVars, buddyVars, wsVars, slabVars>>

\* the next reference on every simulator: a loop iteration of run_simulation
\* (access_page, then lru_counter += 1) or of the plot loops (access_page)
DriverStep ==
    /\ step >= 0
    /\ step < Len(reference_string)
    /\ step' = step + 1
    /\ sims' = [c \in Configs |->
                  LET s1 == access_page(sims[c], reference_string[step + 1], FALSE)
                  IN IF c[1] = "run_simulation"
                     THEN [s1 EXCEPT !.lru_counter = @ + 1]
                     ELSE s1]
    /\ UNCHANGED <<reference_string, pagingVars, cowVars, buddyVars, wsVars, slabVars>>

NextDriver == DriverStart \/ DriverStep

DriverDone == step = Len(reference_string)
faults(driver, algorithm, frames) == sims[<<driver, algorithm, frames>>].page_faults

(***************************************************************************)
(* CopyOnWriteSimulator.  shared_pages maps a data pointer to              *)
(* [data, ref_count]; process_pages maps a pid to its page table, which    *)
(* maps a page number to its info dict: data_ptr is the pointer, or None   *)
(* when the dict has no 'data_ptr' key.  A payload is the sequence of the  *)
(* strings concatenated into it.                                           *)
(***************************************************************************)
Pids == 1..MaxPid
CowPages == 0..MaxCowPage
Payloads == {"ChildModifiedData"}

Max(S) == CHOOSE x \in S : \A y \in S : y <= x

\* dict assignment d[k] = v
put(d, k, v) == [x \in (DOMAIN d) \cup {k} |-> IF x = k THEN v ELSE d[x]]
\* del d[k]
del(d, k) == [x \in (DOMAIN d) \ {k} |-> d[x]]

\* number of entries of page table pt whose data_ptr is ptr
pointing(pt, ptr) == Cardinality({n \in DOMAIN pt : pt[n].data_ptr = ptr})

\* fork_process that copies the parent's entries without counting the new
\* references
fork_process_no_increment(c, parent_pid, child_pid) ==
    LET cleared == put(c.process_pages, child_pid, <<>>)
        parent == IF parent_pid \in DOMAIN cleared THEN cleared[parent_pid] ELSE <<>>
    IN [c EXCEPT !.process_pages = put(cleared, child_pid, parent)]

\* CopyOnWriteSimulator.fork_process
fork_process(c, parent_pid, child_pid) ==
    LET cleared == put(c.process_pages, child_pid, <<>>)
        parent == IF parent_pid \in DOMAIN cleared THEN cleared[parent_pid] ELSE <<>>
    IN [c EXCEPT
          !.process_pages = put(cleared, child_pid, parent),
          !.shared_pages = [ptr \in DOMAIN @ |->
              [@[ptr] EXCEPT !.ref_count = @ + pointing(parent, ptr)]]]

\* new_ptr that takes the largest id in use instead of the one after it
new_ptr_reuse(shared) == IF DOMAIN shared # {} THEN Max(DOMAIN shared) ELSE 100

\* new_ptr = max(self.shared_pages.keys()) + 1 if self.shared_pages else 100
new_ptr(shared) == IF DOMAIN shared # {} THEN Max(DOMAIN shared) + 1 ELSE 100

\* write_to_page that copies an exclusively owned page and keeps the old page
\* in the table with ref_count 0
write_to_page_keep_empty(c, pid, page_num, new_data) ==
    IF pid \notin DOMAIN c.process_pages \/ page_num \notin DOMAIN c.process_pages[pid]
    THEN [c |-> c, branch |-> "not mapped"]
    ELSE LET info == c.process_pages[pid][page_num]
             ptr == info.data_ptr
         IN IF ptr # None
            THEN IF ptr \in DOMAIN c.shared_pages /\ c.shared_pages[ptr].ref_count >= 1
                 THEN LET dec == [c.shared_pages EXCEPT ![ptr].ref_count = @ - 1]
                          np == new_ptr(dec)
                          added == put(dec, np,
                                       [data |-> Append(dec[ptr].data, new_data),
                                        ref_count |-> 1])
                          pp == [c.process_pages EXCEPT ![pid][page_num] = [data_ptr |-> np]]
                      IN [c |-> [shared_pages |-> IF added[ptr].ref_count < 0
                                                  THEN del(added, ptr) ELSE added,
                                 process_pages |-> pp],
                          branch |-> "copy"]
                 ELSE IF ptr \in DOMAIN c.shared_pages
                      THEN [c |-> [c EXCEPT !.shared_pages[ptr].data = <<new_data>>],
                            branch |-> "direct write"]
                      ELSE [c |-> c, branch |-> "KeyError"]
            ELSE LET np == new_ptr(c.shared_pages)
                 IN [c |-> [shared_pages |-> put(c.shared_pages, np,
                                                 [data |-> <<new_data>>, ref_count |-> 1]),
                            process_pages |->
                                [c.process_pages EXCEPT ![pid][page_num] = [data_ptr |-> np]]],
                     branch |-> "new page"]

\* write_to_page that copies an exclusively owned page as well (>= 1 for > 1)
write_to_page_always_copy(c, pid, page_num, new_data) ==
    IF pid \notin DOMAIN c.process_pages \/ page_num \notin DOMAIN c.process_pages[pid]
    THEN [c |-> c, branch |-> "not mapped"]
    ELSE LET info == c.process_pages[pid][page_num]
             ptr == info.data_ptr
         IN IF ptr # None
            THEN IF ptr \in DOMAIN c.shared_pages /\ c.shared_pages[ptr].ref_count >= 1
                 THEN LET dec == [c.shared_pages EXCEPT ![ptr].ref_count = @ - 1]
                          np == new_ptr(dec)
                          added == put(dec, np,
                                       [data |-> Append(dec[ptr].data, new_data),
                                        ref_count |-> 1])
                          pp == [c.process_pages EXCEPT ![pid][page_num] = [data_ptr |-> np]]
                      IN [c |-> [shared_pages |-> IF added[ptr].ref_count = 0
                                                  THEN del(added, ptr) ELSE added,
                                 process_pages |-> pp],
                          branch |-> "copy"]
                 ELSE IF ptr \in DOMAIN c.shared_pages
                      THEN [c |-> [c EXCEPT !.shared_pages[ptr].data = <<new_data>>],
                            branch |-> "direct write"]
                      ELSE [c |-> c, branch |-> "KeyError"]
            ELSE LET np == new_ptr(c.shared_pages)
                 IN [c |-> [shared_pages |-> put(c.shared_pages, np,
                                                 [data |-> <<new_data>>, ref_count |-> 1]),
                            process_pages |->
                                [c.process_pages EXCEPT ![pid][page_num] = [data_ptr |-> np]]],
                     branch |-> "new page"]

\* write_to_page whose last branch creates the page and leaves the entry alone
write_to_page_no_repoint(c, pid, page_num, new_data) ==
    IF pid \notin DOMAIN c.process_pages \/ page_num \notin DOMAIN c.process_pages[pid]
    THEN [c |-> c, branch |-> "not mapped"]
    ELSE LET info == c.process_pages[pid][page_num]
             ptr == info.data_ptr
         IN IF ptr # None
            THEN IF ptr \in DOMAIN c.shared_pages /\ c.shared_pages[ptr].ref_count > 1
                 THEN LET dec == [c.shared_pages EXCEPT ![ptr].ref_count = @ - 1]
                          np == new_ptr(dec)
                          added == put(dec, np,
                                       [data |-> Append(dec[ptr].data, new_data),
                                        ref_count |-> 1])
                          pp == [c.process_pages EXCEPT ![pid][page_num] = [data_ptr |-> np]]
                      IN [c |-> [shared_pages |-> IF added[ptr].ref_count = 0
                                                  THEN del(added, ptr) ELSE added,
                                 process_pages |-> pp],
                          branch |-> "copy"]
                 ELSE IF ptr \in DOMAIN c.shared_pages
                      THEN [c |-> [c EXCEPT !.shared_pages[ptr].data = <<new_data>>],
                            branch |-> "direct write"]
                      ELSE [c |-> c, branch |-> "KeyError"]
            ELSE LET np == new_ptr(c.shared_pages)
                 IN [c |-> [shared_pages |-> put(c.shared_pages, np,
                                                 [data |-> <<new_data>>, ref_count |-> 1]),
                            process_pages |-> c.process_pages],
                     branch |-> "new page"]

\* CopyOnWriteSimulator.write_to_page; returns [c, branch]
write_to_page(c, pid, page_num, new_data) ==
    IF pid \notin DOMAIN c.process_pages \/ page_num \notin DOMAIN c.process_pages[pid]
    THEN [c |-> c, branch |-> "not mapped"]
    ELSE LET info == c.process_pages[pid][page_num]
             ptr == info.data_ptr
         IN IF ptr # None
            THEN IF ptr \in DOMAIN c.shared_pages /\ c.shared_pages[ptr].ref_count > 1
                 THEN LET dec == [c.shared_pages EXCEPT ![ptr].ref_count = @ - 1]
                          np == new_ptr(dec)
                          added == put(dec, np,
                                       [data |-> Append(dec[ptr].data, new_data),
                                        ref_count |-> 1])
                          pp == [c.process_pages EXCEPT ![pid][page_num] = [data_ptr |-> np]]
                      IN [c |-> [shared_pages |-> IF added[ptr].ref_count = 0
                                                  THEN del(added, ptr) ELSE added,
                                 process_pages |-> pp],
                          branch |-> "copy"]
                 ELSE IF ptr \in DOMAIN c.shared_pages
                      THEN [c |-> [c EXCEPT !.shared_pages[ptr].data = <<new_data>>],
                            branch |-> "direct write"]
                      ELSE [c |-> c, branch |-> "KeyError"]
            ELSE LET np == new_ptr(c.shared_pages)
                 IN [c |-> [shared_pages |-> put(c.shared_pages, np,
                                                 [data |-> <<new_data>>, ref_count |-> 1]),
                            process_pages |->
                                [c.process_pages EXCEPT ![pid][page_num] = [data_ptr |-> np]]],
                     branch |-> "new page"]

\* main's set-up of the parent: process 1 maps every page, page n to shared
\* page n with ref_count 1; generalised so that a page's info dict may also
\* lack the data_ptr key
CowSetups ==
    {[shared_pages |-> [n \in mapped |-> [data |-> <<"ParentData">>, ref_count |-> 1]],
      process_pages |-> [pid \in {1} |->
          [n \in CowPages |-> [data_ptr |-> IF n \in mapped THEN n ELSE None]]]]
       : mapped \in SUBSET CowPages}

InitCow ==
    /\ cow \in CowSetups
    /\ cow_last = [op |-> "init", pid |-> 0, page_num |-> 0, branch |-> "", new_data |-> "",
                   calls |-> 0, before |-> [shared_pages |-> <<>>, process_pages |-> <<>>]]

ForkProcess(parent_pid, child_pid) ==
    /\ cow_last.calls < MaxCowCalls
    /\ cow' = fork_process(cow, parent_pid, child_pid)
    /\ cow_last' = [op |-> "fork_process", pid |-> child_pid, page_num |-> parent_pid,
                    branch |-> "", new_data |-> "", calls |-> cow_last.calls + 1, before |-> cow]
    /\ UNCHANGED <<pagingVars, driverVars, buddyVars, wsVars, slabVars>>

WriteToPage(pid, page_num, new_data) ==
    /\ cow_last.calls < MaxCowCalls
    /\ LET w == write_to_page(cow, pid, page_num, new_data)
       IN /\ cow' = w.c
          /\ cow_last' = [op |-> "write_to_page", pid |-> pid, page_num |-> page_num,
                          new_data |-> new_data, branch |-> w.branch, calls |-> cow_last.calls + 1, before |-> cow]
    /\ UNCHANGED <<pagingVars, driverVars, buddyVars, wsVars, slabVars>>

NextCow ==
    \/ \E parent_pid \in Pids, child_pid \in Pids : ForkProcess(parent_pid, child_pid)
    \/ \E pid \in Pids, page_num \in CowPages, new_data \in Payloads :
          WriteToPage(pid, page_num, new_data)

(***************************************************************************)
(* BuddySystemAllocator.  free_lists[k + 1] is the free list of order k;   *)
(* allocated_blocks maps an address to [size, order].                      *)
(***************************************************************************)
\* int.bit_length() of a non-negative integer
RECURSIVE bits(_)
bits(n) == IF n = 0 THEN 0 ELSE 1 + bits(n \div 2)

\* int.bit_length(): the number of bits of the absolute value
bit_length(n) == IF n < 0 THEN bits(-n) ELSE bits(n)

\* 1 << k
RECURSIVE shl1(_)
shl1(k) == IF k = 0 THEN 1 ELSE 2 * shl1(k - 1)

\* block ^ (1 << k)
xor_bit(block, k) ==
    IF (block \div shl1(k)) % 2 = 0 THEN block + shl1(k) ELSE block - shl1(k)

\* BuddySystemAllocator.__init__
BuddySystemAllocator(total_memory) ==
    LET tm == shl1(bit_length(total_memory - 1))
        max_order == bit_length(tm - 1)
    IN [total_memory |-> tm,
        max_order |-> max_order,
        free_lists |-> [k \in 1..(max_order + 1) |-> IF k = max_order + 1 THEN <<0>> ELSE <<>>],
        allocated_blocks |-> <<>>]

\* the search loop of allocate: the first order >= current_order with a free block
RECURSIVE find_order(_, _)
find_order(b, current_order) ==
    IF current_order <= b.max_order /\ b.free_lists[current_order + 1] = <<>>
    THEN find_order(b, current_order + 1)
    ELSE current_order

\* allocate that takes the larger block whole: the split pushes no buddy
allocate_no_split(b, size) ==
    LET order == bit_length(size - 1)
        current_order == find_order(b, order)
    IN IF order > b.max_order THEN [b |-> b, result |-> None, raised |-> ""]
       ELSE IF current_order > b.max_order THEN [b |-> b, result |-> None, raised |-> ""]
       ELSE LET block == Head(b.free_lists[current_order + 1])
                taken == [b.free_lists EXCEPT ![current_order + 1] = Tail(@)]
                split == [k \in 1..Len(taken) |->
                            IF k - 1 >= order /\ k - 1 < current_order
                            THEN taken[k]
                            ELSE taken[k]]
            IN [b |-> [b EXCEPT !.free_lists = split,
                                !.allocated_blocks =
                                    put(@, block, [size |-> shl1(order), order |-> order])],
                result |-> block, raised |-> ""]

\* allocate that starts its search one order above the request
allocate_skip_order(b, size) ==
    LET order == bit_length(size - 1)
        current_order == find_order(b, order + 1)
    IN IF order > b.max_order THEN [b |-> b, result |-> None, raised |-> ""]
       ELSE IF current_order > b.max_order THEN [b |-> b, result |-> None, raised |-> ""]
       ELSE LET block == Head(b.free_lists[current_order + 1])
                taken == [b.free_lists EXCEPT ![current_order + 1] = Tail(@)]
                split == [k \in 1..Len(taken) |->
                            IF k - 1 >= order /\ k - 1 < current_order
                            THEN Append(taken[k], xor_bit(block, k - 1))
                            ELSE taken[k]]
            IN [b |-> [b EXCEPT !.free_lists = split,
                                !.allocated_blocks =
                                    put(@, block, [size |-> shl1(order), order |-> order])],
                result |-> block, raised |-> ""]

\* BuddySystemAllocator.allocate; returns [b, result] (result None for Python None)
allocate(b, size) ==
    LET order == bit_length(size - 1)
        current_order == find_order(b, order)
    IN IF order > b.max_order THEN [b |-> b, result |-> None, raised |-> ""]
       ELSE IF current_order > b.max_order THEN [b |-> b, result |-> None, raised |-> ""]
       ELSE LET block == Head(b.free_lists[current_order + 1])
                taken == [b.free_lists EXCEPT ![current_order + 1] = Tail(@)]
                split == [k \in 1..Len(taken) |->
                            IF k - 1 >= order /\ k - 1 < current_order
                            THEN Append(taken[k], xor_bit(block, k - 1))
                            ELSE taken[k]]
            IN [b |-> [b EXCEPT !.free_lists = split,
                                !.allocated_blocks =
                                    put(@, block, [size |-> shl1(order), order |-> order])],
                result |-> block, raised |-> ""]

\* the coalescing loop of free; returns the free lists, block and order it ends with
RECURSIVE coalesce(_, _, _, _)
coalesce(fl, max_order, block, order) ==
    LET buddy_addr == xor_bit(block, order)
    IN IF order < max_order /\ buddy_addr \in Range(fl[order + 1])
       THEN coalesce([fl EXCEPT ![order + 1] = remove(@, buddy_addr)], max_order,
                     IF block < buddy_addr THEN block ELSE buddy_addr, order + 1)
       ELSE [free_lists |-> fl, block |-> block, order |-> order]

\* BuddySystemAllocator.free; del self.allocated_blocks[block] uses the block
\* the loop ended with and raises KeyError when that address is no key
free(b, block) ==
    IF block \notin DOMAIN b.allocated_blocks
    THEN [b |-> b, result |-> None, raised |-> ""]
    ELSE LET info == b.allocated_blocks[block]
             m == coalesce(b.free_lists, b.max_order, block, info.order)
             fl == [m.free_lists EXCEPT ![m.order + 1] = sort(Append(@, m.block))]
         IN IF m.block \in DOMAIN b.allocated_blocks
            THEN [b |-> [b EXCEPT !.free_lists = fl,
                                  !.allocated_blocks = del(@, m.block)],
                  result |-> None, raised |-> ""]
            ELSE [b |-> [b EXCEPT !.free_lists = fl],
                  result |-> None, raised |-> "KeyError"]

InitBuddy ==
    /\ buddy \in {BuddySystemAllocator(total_memory) : total_memory \in 1..MaxMemory}
    /\ buddy_last = [op |-> "init", arg |-> 0, result |-> None, raised |-> "",
                     calls |-> 0, before |-> buddy]

Allocate(size) ==
    /\ buddy_last.calls < MaxBuddyCalls
    /\ LET a == allocate(buddy, size)
       IN /\ buddy' = a.b
          /\ buddy_last' = [op |-> "allocate", arg |-> size, result |-> a.result,
                            raised |-> a.raised, calls |-> buddy_last.calls + 1,
                            before |-> buddy]
    /\ UNCHANGED <<pagingVars, driverVars, cowVars, wsVars, slabVars>>

Free(block) ==
    /\ buddy_last.calls < MaxBuddyCalls
    /\ LET f == free(buddy, block)
       IN /\ buddy' = f.b
          /\ buddy_last' = [op |-> "free", arg |-> block, result |-> None,
                            raised |-> f.raised, calls |-> buddy_last.calls + 1,
                            before |-> buddy]
    /\ UNCHANGED <<pagingVars, driverVars, cowVars, wsVars, slabVars>>

\* the largest total_memory after __init__ has rounded it up
MaxTotal == shl1(bit_length(MaxMemory - 1))

NextBuddy ==
    \/ \E size \in 1..(MaxTotal + 1) : Allocate(size)
    \/ \E block \in 0..(MaxTotal - 1) : Free(block)

(***************************************************************************)
(* WorkingSetSimulator.  processes maps a pid to its record; the deque     *)
(* access_history is a sequence, oldest reference first.                   *)
(***************************************************************************)
WsPids == 1..MaxWsPid

\* WorkingSetSimulator.__init__
WorkingSetSimulator(total_frames) ==
    [total_frames |-> total_frames, processes |-> <<>>, time |-> 0, delta |-> 4]

\* WorkingSetSimulator.add_process
add_process(w, pid, locality_size) ==
    [w EXCEPT !.processes = put(@, pid,
        [locality |-> [i \in 1..locality_size |-> i - 1],
         current_locality |-> 0,
         page_faults |-> 0,
         working_set |-> {},
         access_history |-> <<>>])]

\* seq[lo:hi] of Python, lo and hi not negative
slice(seq, lo, hi) == SubSeq(seq, lo + 1, IF hi < Len(seq) THEN hi ELSE Len(seq))

\* the pages simulate_access draws from with random.choice
locality_pages(process) ==
    LET part == slice(process.locality, process.current_locality * 10,
                      (process.current_locality + 1) * 10)
    IN IF part = <<>> THEN process.locality ELSE part

\* a full deque that drops the new element instead of the oldest
deque_append_keep_oldest(dq, n, x) == IF Len(dq) >= n THEN dq ELSE Append(dq, x)

\* deque(maxlen = n).append(x)
deque_append(dq, n, x) == IF Len(dq) >= n THEN Append(Tail(dq), x) ELSE Append(dq, x)

\* WorkingSetSimulator.simulate_access once random.choice has returned page
\* and random.random() < 0.1 has come out as change
simulate_access(w, pid, page, change) ==
    LET process == w.processes[pid]
        history == deque_append(process.access_history, w.delta, page)
        working_set == Range(history)
    IN [w EXCEPT !.time = @ + 1,
                 !.processes[pid] =
                    [process EXCEPT
                        !.access_history = history,
                        !.working_set = working_set,
                        !.page_faults = IF page \notin working_set THEN @ + 1 ELSE @,
                        !.current_locality = IF change THEN (@ + 1) % 3 ELSE @]]

\* sum(len(p['working_set']) for p in self.processes.values())
RECURSIVE total_working_set(_, _)
total_working_set(processes, pids) ==
    IF pids = {} THEN 0
    ELSE LET pid == CHOOSE x \in pids : TRUE
         IN Cardinality(processes[pid].working_set)
            + total_working_set(processes, pids \ {pid})

\* detect_thrashing that reports thrashing from the boundary on (>= for >)
detect_thrashing_from_equal(w) ==
    total_working_set(w.processes, DOMAIN w.processes) >= w.total_frames

\* WorkingSetSimulator.detect_thrashing: the value returned
detect_thrashing(w) ==
    total_working_set(w.processes, DOMAIN w.processes) > w.total_frames

InitWs ==
    /\ ws \in {WorkingSetSimulator(total_frames) : total_frames \in 0..MaxWsFrames}
    /\ ws_last = [op |-> "init", pid |-> 0, page |-> None, thrashing |-> FALSE,
                  raised |-> ""]

AddProcess(pid, locality_size) ==
    /\ ws' = add_process(ws, pid, locality_size)
    /\ ws_last' = [op |-> "add_process", pid |-> pid, page |-> None, thrashing |-> FALSE,
                   raised |-> ""]
    /\ UNCHANGED <<pagingVars, driverVars, cowVars, buddyVars, slabVars>>

\* simulate_access(pid): KeyError for an unknown pid and IndexError from
\* random.choice on an empty locality, both after time += 1
SimulateAccess(pid) ==
    /\ ws.time < MaxTime
    /\ UNCHANGED <<pagingVars, driverVars, cowVars, buddyVars, slabVars>>
    /\ IF pid \notin DOMAIN ws.processes
       THEN /\ ws' = [ws EXCEPT !.time = @ + 1]
            /\ ws_last' = [op |-> "simulate_access", pid |-> pid, page |-> None,
                           thrashing |-> FALSE, raised |-> "KeyError"]
       ELSE IF locality_pages(ws.processes[pid]) = <<>>
       THEN /\ ws' = [ws EXCEPT !.time = @ + 1]
            /\ ws_last' = [op |-> "simulate_access", pid |-> pid, page |-> None,
                           thrashing |-> FALSE, raised |-> "IndexError"]
       ELSE \E page \in Range(locality_pages(ws.processes[pid])), change \in BOOLEAN :
               /\ ws' = simulate_access(ws, pid, page, change)
               /\ ws_last' = [op |-> "simulate_access", pid |-> pid, page |-> page,
                              thrashing |-> FALSE, raised |-> ""]

DetectThrashing ==
    /\ ws' = ws
    /\ ws_last' = [op |-> "detect_thrashing", pid |-> 0, page |-> None,
                   thrashing |-> detect_thrashing(ws), raised |-> ""]
    /\ UNCHANGED <<pagingVars, driverVars, cowVars, buddyVars, slabVars>>

NextWs ==
    \/ \E pid \in WsPids, locality_size \in 0..MaxLocality : AddProcess(pid, locality_size)
    \/ \E pid \in WsPids : SimulateAccess(pid)
    \/ DetectThrashing

(***************************************************************************)
(* SlabAllocator                                                           *)
(*                                                                         *)
(* A slab is a Python dict object: the allocator's lists hold references   *)
(* to it, and "slab in state" / "state.remove(slab)" compare dicts by      *)
(* value.  heap[id] is the slab object id, the lists and caches hold ids,  *)
(* and membership and removal compare the heap values.                     *)
(***************************************************************************)
MaxSlabObjects == 2     \* create_cache is called with 1..MaxSlabObjects objects
MaxObjectSize == 1      \* and with object_size 1..MaxObjectSize
MaxSlabData == 1        \* allocate_object stores data 1..MaxSlabData
MaxSlabCalls == 5       \* cap on the number of SlabAllocator calls

CacheNames == {"task_struct", "inode"}

\* num_objects=10, the default of create_cache
default_num_objects == 10

SlabAllocator ==
    [heap |-> <<>>,
     caches |-> <<>>,
     slab_states |-> [full |-> <<>>, empty |-> <<>>, partial |-> <<>>]]

new_slab(name, object_size, num_objects) ==
    [name |-> name,
     object_size |-> object_size,
     objects |-> [i \in 1..num_objects |-> [free |-> TRUE, data |-> None]],
     free_count |-> num_objects]

create_cache(a, name, object_size, num_objects) ==
    LET id == Len(a.heap) + 1
    IN  [a EXCEPT !.heap = Append(@, new_slab(name, object_size, num_objects)),
                  !.caches = put(@, name, id),
                  !.slab_states.empty = Append(@, id)]

\* "slab in state": some element of the list equals the slab
slab_in(a, id, state) == \E k \in 1..Len(state) : a.heap[state[k]] = a.heap[id]

\* state.remove(slab): drops the first element equal to the slab
slab_remove(a, id, state) ==
    LET k == CHOOSE k \in 1..Len(state) :
                 /\ a.heap[state[k]] = a.heap[id]
                 /\ \A j \in 1..(k - 1) : a.heap[state[j]] # a.heap[id]
    IN  SubSeq(state, 1, k - 1) \o SubSeq(state, k + 1, Len(state))

update_slab_state(a, id) ==
    LET slab == a.heap[id]
        ss == a.slab_states
        \* the dict's lists in insertion order: full, empty, partial
        removed == IF slab_in(a, id, ss.full)
                   THEN [ss EXCEPT !.full = slab_remove(a, id, @)]
                   ELSE IF slab_in(a, id, ss.empty)
                   THEN [ss EXCEPT !.empty = slab_remove(a, id, @)]
                   ELSE IF slab_in(a, id, ss.partial)
                   THEN [ss EXCEPT !.partial = slab_remove(a, id, @)]
                   ELSE ss
    IN  IF slab.free_count = 0
        THEN [a EXCEPT !.slab_states = [removed EXCEPT !.full = Append(@, id)]]
        ELSE IF slab.free_count = Len(slab.objects)
        THEN [a EXCEPT !.slab_states = [removed EXCEPT !.empty = Append(@, id)]]
        ELSE [a EXCEPT !.slab_states = [removed EXCEPT !.partial = Append(@, id)]]

\* the slab has a slot marked free
has_free(slab) == \E i \in 1..Len(slab.objects) : slab.objects[i].free

\* slot i (0-based) of slab id takes data
take(a, id, i, data) ==
    [a EXCEPT !.heap[id].objects[i + 1] = [free |-> FALSE, data |-> data],
              !.heap[id].free_count = @ - 1]

\* allocate_object past the cache lookup, when a partial slab has a free slot
\* or an empty slab exists: (slab, i) and the allocator after the call
serve(a, data) ==
    LET partial == a.slab_states.partial
        empty == a.slab_states.empty
    IN  IF \E k \in 1..Len(partial) : has_free(a.heap[partial[k]])
        THEN LET k == CHOOSE k \in 1..Len(partial) :
                          /\ has_free(a.heap[partial[k]])
                          /\ \A j \in 1..(k - 1) : ~has_free(a.heap[partial[j]])
                 id == partial[k]
                 objects == a.heap[id].objects
                 i == CHOOSE i \in 1..Len(objects) :
                          /\ objects[i].free
                          /\ \A j \in 1..(i - 1) : ~objects[j].free
             IN  [a |-> update_slab_state(take(a, id, i - 1, data), id),
                  slab |-> id, i |-> i - 1]
        ELSE LET id == Head(empty)
                 popped == [a EXCEPT !.slab_states.empty = Tail(@)]
             IN  [a |-> update_slab_state(take(popped, id, 0, data), id),
                  slab |-> id, i |-> 0]

allocate_object(a, cache_name, data) ==
    IF cache_name \notin DOMAIN a.caches
    THEN [a |-> a, slab |-> None, i |-> None]
    ELSE IF \/ \E k \in 1..Len(a.slab_states.partial) :
                   has_free(a.heap[a.slab_states.partial[k]])
            \/ a.slab_states.empty # <<>>
    THEN serve(a, data)
    ELSE serve(create_cache(a, cache_name, a.heap[a.caches[cache_name]].object_size,
                            default_num_objects),
               data)

free_object(a, id, i) ==
    update_slab_state(
        [a EXCEPT !.heap[id].objects[i + 1] = [free |-> TRUE, data |-> None],
                  !.heap[id].free_count = @ + 1],
        id)

InitSlab ==
    /\ slabs = SlabAllocator
    /\ slab_last = [op |-> "init", cache_name |-> "", slab |-> None, i |-> None,
                    calls |-> 0, before |-> SlabAllocator]

CreateCache(name, object_size, num_objects) ==
    /\ slab_last.calls < MaxSlabCalls
    /\ slabs' = create_cache(slabs, name, object_size, num_objects)
    /\ slab_last' = [op |-> "create_cache", cache_name |-> name,
                     slab |-> Len(slabs.heap) + 1, i |-> None,
                     calls |-> slab_last.calls + 1, before |-> slabs]
    /\ UNCHANGED <<pagingVars, driverVars, cowVars, buddyVars, wsVars>>

AllocateObject(cache_name, data) ==
    /\ slab_last.calls < MaxSlabCalls
    /\ LET r == allocate_object(slabs, cache_name, data)
       IN  /\ slabs' = r.a
           /\ slab_last' = [op |-> "allocate_object", cache_name |-> cache_name,
                            slab |-> r.slab, i |-> r.i,
                            calls |-> slab_last.calls + 1, before |-> slabs]
    /\ UNCHANGED <<pagingVars, driverVars, cowVars, buddyVars, wsVars>>

\* free_object(slab, index) on a slot that is allocated
FreeObject(id, i) ==
    /\ slab_last.calls < MaxSlabCalls
    /\ id \in 1..Len(slabs.heap)
    /\ (i + 1) \in 1..Len(slabs.heap[id].objects)
    /\ ~slabs.heap[id].objects[i + 1].free
    /\ slabs' = free_object(slabs, id, i)
    /\ slab_last' = [op |-> "free_object", cache_name |-> "", slab |-> id, i |-> i,
                     calls |-> slab_last.calls + 1, before |-> slabs]
    /\ UNCHANGED <<pagingVars, driverVars, cowVars, buddyVars, wsVars>>

\* slots of the widest slab
MaxSlots == IF MaxSlabObjects > default_num_objects THEN MaxSlabObjects
            ELSE default_num_objects

NextSlab ==
    \/ \E name \in CacheNames, object_size \in 1..MaxObjectSize,
          num_objects \in 1..MaxSlabObjects :
          CreateCache(name, object_size, num_objects)
    \/ \E cache_name \in CacheNames, data \in 1..MaxSlabData :
          AllocateObject(cache_name, data)
    \/ \E id \in 1..MaxSlabCalls, i \in 0..(MaxSlots - 1) : FreeObject(id, i)

(***************************************************************************)
(* Specifications: one per simulator; the other simulators stay as         *)
(* constructed.                                                            *)
(***************************************************************************)
\* no simulator of the kind exists
NoPaging == sim = <<>> /\ run = Idle
NoDriver == reference_string = <<>> /\ step = -1 /\ sims = <<>>
NoCow == cow = <<>> /\ cow_last = <<>>
NoBuddy == buddy = <<>> /\ buddy_last = <<>>
NoWs == ws = <<>> /\ ws_last = <<>>

NoSlab == slabs = <<>> /\ slab_last = <<>>

Init == InitPaging /\ NoDriver /\ NoCow /\ NoBuddy /\ NoWs /\ NoSlab
Next == NextPaging
Spec == Init /\ [][Next]_vars

DriverInit == NoPaging /\ InitDriver /\ NoCow /\ NoBuddy /\ NoWs /\ NoSlab
SpecDriver == DriverInit /\ [][NextDriver]_vars

CowInit == NoPaging /\ NoDriver /\ InitCow /\ NoBuddy /\ NoWs /\ NoSlab
SpecCow == CowInit /\ [][NextCow]_vars

\* fork_process called as fork() is: the child id is new and is not the parent's
ForkFresh(parent_pid, child_pid) ==
    /\ child_pid # parent_pid
    /\ child_pid \notin DOMAIN cow.process_pages
    /\ ForkProcess(parent_pid, child_pid)

NextCowFresh ==
    \/ \E parent_pid \in Pids, child_pid \in Pids : ForkFresh(parent_pid, child_pid)
    \/ \E pid \in Pids, page_num \in CowPages, new_data \in Payloads :
          WriteToPage(pid, page_num, new_data)
SpecCowFresh == CowInit /\ [][NextCowFresh]_vars

BuddyInit == NoPaging /\ NoDriver /\ NoCow /\ InitBuddy /\ NoWs /\ NoSlab
SpecBuddy == BuddyInit /\ [][NextBuddy]_vars

\* a fresh allocator serves a series of allocations and then frees its
\* outstanding blocks, in any order
AllocateFirst(size) ==
    /\ buddy_last.op # "free"
    /\ Allocate(size)

FreeOutstanding(block) ==
    /\ block \in DOMAIN buddy.allocated_blocks
    /\ Free(block)

NextBuddyDrain ==
    \/ \E size \in 1..(MaxTotal + 1) : AllocateFirst(size)
    \/ \E block \in 0..(MaxTotal - 1) : FreeOutstanding(block)
SpecBuddyDrain == BuddyInit /\ [][NextBuddyDrain]_vars

WsInit == NoPaging /\ NoDriver /\ NoCow /\ NoBuddy /\ InitWs /\ NoSlab
SpecWs == WsInit /\ [][NextWs]_vars

\* one tracked process with a locality wide enough to fill the window with
\* distinct pages
NextWindow ==
    \/ \E locality_size \in 0..MaxWindowLocality : AddProcess(1, locality_size)
    \/ SimulateAccess(1)
SpecWindow == WsInit /\ [][NextWindow]_vars

SlabInit == NoPaging /\ NoDriver /\ NoCow /\ NoBuddy /\ NoWs /\ InitSlab
SpecSlab == SlabInit /\ [][NextSlab]_vars

(***************************************************************************)
(* Copy-on-write reference counts                                          *)
(***************************************************************************)
\* number of (process, page) entries whose data_ptr is ptr
RECURSIVE fan_in_of(_, _, _)
fan_in_of(pp, pids, ptr) ==
    IF pids = {} THEN 0
    ELSE LET pid == CHOOSE x \in pids : TRUE
         IN pointing(pp[pid], ptr) + fan_in_of(pp, pids \ {pid}, ptr)

fan_in(c, ptr) == fan_in_of(c.process_pages, DOMAIN c.process_pages, ptr)

\* C1: after any sequence of fork_process and write_to_page calls, whatever
\* the parent and child ids, every shared page's ref_count equals the number
\* of (process, page) entries whose data_ptr points to it.
C1_RefCountIsFanIn ==
    \A ptr \in DOMAIN cow.shared_pages : cow.shared_pages[ptr].ref_count = fan_in(cow, ptr)

(***************************************************************************)
(* Buddy allocator tiling and round trip                                   *)
(***************************************************************************)
\* number of positions of seq that satisfy Covers
count(seq, Covers(_)) == Cardinality({i \in 1..Len(seq) : Covers(seq[i])})

\* number of free-list blocks of order k = 0.. that contain address a
RECURSIVE free_cover(_, _, _)
free_cover(b, k, a) ==
    IF k > b.max_order THEN 0
    ELSE count(b.free_lists[k + 1], LAMBDA addr : addr <= a /\ a < addr + shl1(k))
         + free_cover(b, k + 1, a)

\* number of allocated blocks that contain address a
allocated_cover(b, a) ==
    Cardinality({addr \in DOMAIN b.allocated_blocks :
                    addr <= a /\ a < addr + b.allocated_blocks[addr].size})

\* C2: after any sequence of allocate and free calls the free-list blocks and
\* the allocated blocks exactly partition [0, total_memory): every address is
\* in exactly one block.
C2_Tiling ==
    \A a \in 0..(buddy.total_memory - 1) :
        free_cover(buddy, 0, a) + allocated_cover(buddy, a) = 1

\* C8: allocate(size) followed immediately by free(returned_address) restores
\* the free lists and allocated_blocks to what they were before the allocate.
C8_RoundTrip ==
    [][(/\ buddy_last.op = "allocate"
        /\ buddy_last.result # None
        /\ buddy_last'.op = "free"
        /\ buddy_last'.arg = buddy_last.result)
       => (/\ buddy'.free_lists = buddy_last.before.free_lists
           /\ buddy'.allocated_blocks = buddy_last.before.allocated_blocks)]_vars

(***************************************************************************)
(* Fault counts of the comparison driver                                   *)
(***************************************************************************)
\* C3: for every reference string and frame count, Optimal (given the string
\* as its future reference sequence) faults no more often than LRU and FIFO.
C3_OptimalIsLowerBound ==
    DriverDone =>
        \A d \in Drivers, f \in frame_counts :
            /\ faults(d, "OPTIMAL", f) <= faults(d, "LRU", f)
            /\ faults(d, "OPTIMAL", f) <= faults(d, "FIFO", f)

\* C4: the lecture's reference string with 3 frames under Optimal, run with
\* the full string as access_history, yields exactly 9 page faults.
C4_TextbookOptimal ==
    (DriverDone /\ reference_string = Textbook) =>
        faults("run_simulation", "OPTIMAL", 3) = 9

\* C5: the lecture's reference string with 3 frames under FIFO yields
\* exactly 15 page faults.
C5_TextbookFifo ==
    (DriverDone /\ reference_string = Textbook) =>
        \A d \in Drivers : faults(d, "FIFO", 3) = 15

C5_Witness ==
    /\ DriverDone
    /\ reference_string = Textbook
    /\ \A d \in Drivers :
          /\ sims[<<d, "FIFO", 3>>].memory_accesses = 22
          /\ Len(sims[<<d, "FIFO", 3>>].fifo_queue) = 3

\* C6: the lecture's reference string with 3 frames under LRU, run by
\* run_simulation, yields exactly 12 page faults.
C6_TextbookLru ==
    (DriverDone /\ reference_string = Textbook) =>
        faults("run_simulation", "LRU", 3) = 12

C6_Witness ==
    /\ DriverDone
    /\ reference_string = Textbook
    /\ sims[<<"run_simulation", "LRU", 3>>].lru_counter = 22
    /\ sims[<<"run_simulation", "LRU", 3>>].memory_accesses = 22

\* C7 as stated: for [1,2,3,4,1,2,5,1,2,3,4,5] FIFO with 3 frames faults
\* strictly more often than FIFO with 4 frames.
C7_ThreeFramesFaultMore ==
    (DriverDone /\ reference_string = Belady) =>
        \A d \in Drivers : faults(d, "FIFO", 3) > faults(d, "FIFO", 4)

\* C7 amended: for [1,2,3,4,1,2,5,1,2,3,4,5] FIFO with 4 frames faults
\* strictly more often (10 times) than FIFO with 3 frames (9 times).
C7_FourFramesFaultMore ==
    (DriverDone /\ reference_string = Belady) =>
        \A d \in Drivers :
            /\ faults(d, "FIFO", 4) > faults(d, "FIFO", 3)
            /\ faults(d, "FIFO", 4) = 10
            /\ faults(d, "FIFO", 3) = 9

C7_Witness ==
    /\ DriverDone
    /\ reference_string = Belady
    /\ \A d \in Drivers, f \in {3, 4} :
          /\ sims[<<d, "FIFO", f>>].memory_accesses = 12
          /\ Len(sims[<<d, "FIFO", f>>].fifo_queue) = f

(***************************************************************************)
(* Frame ownership of the directly driven simulator                        *)
(***************************************************************************)
\* pages whose entry allocated_frames records as the owner of frame f
owners(s, f) == {e.page : e \in {x \in Range(s.allocated_frames) : x.frame = f}}

\* C9: every frame index in [0, total_frames) is either in the free list
\* exactly once or owned by exactly one page table entry, never both and
\* never by two, and an entry owns frame f iff its frame_number is f.
C9_FrameOwnership ==
    /\ \A f \in 0..(sim.total_frames - 1) :
          /\ count(sim.free_frames, LAMBDA x : x = f)
               + count(sim.allocated_frames, LAMBDA e : e.frame = f) = 1
          /\ \A p \in DOMAIN sim.page_table :
                p \in owners(sim, f) <=> sim.page_table[p].frame_number = f
    /\ Range(sim.free_frames) \cup Range(frames_of(sim)) \subseteq 0..(sim.total_frames - 1)
    /\ Range(pages_of(sim)) \subseteq DOMAIN sim.page_table

\* a page has been replaced and its frame handed to the faulting page
C9_Witness ==
    /\ sim.total_frames = 2
    /\ sim.page_faults > 2
    /\ sim.free_frames = <<>>
    /\ Len(sim.allocated_frames) = 2
    /\ \E p \in DOMAIN sim.page_table : ~sim.page_table[p].valid

\* C10: for every page table entry, valid is true iff frame_number is set.
C10_ValidIffFrame ==
    \A p \in DOMAIN sim.page_table :
        sim.page_table[p].valid <=> sim.page_table[p].frame_number # None

\* one resident entry holding the only frame and one evicted entry
C10_Witness ==
    /\ sim.total_frames = 1
    /\ \E p, q \in DOMAIN sim.page_table :
          /\ sim.page_table[p].valid /\ sim.page_table[p].frame_number = 0
          /\ ~sim.page_table[q].valid /\ sim.page_table[q].access_count > 0

(***************************************************************************)
(* Progress of a page fault                                                *)
(***************************************************************************)
\* the call that led from s to t referenced page p
referenced_by_call(s, t, p) ==
    /\ t.memory_accesses = s.memory_accesses + 1
    /\ p \in DOMAIN t.page_table
    /\ \/ p \notin DOMAIN s.page_table
       \/ t.page_table[p].access_count = s.page_table[p].access_count + 1

\* C11: with total_frames >= 1, whatever the policy, every access_page(p)
\* call ends with page p resident (valid, with a frame); no page fault is
\* counted while the faulting page is left non-resident.
C11_AccessLeavesPageResident ==
    [][\A p \in Pages :
          (sim.total_frames >= 1 /\ referenced_by_call(sim, sim', p))
          => /\ sim'.page_table[p].valid
             /\ sim'.page_table[p].frame_number \in 0..(sim.total_frames - 1)
             /\ sim'.raised = ""]_vars

\* a fault served by replacement: no frame was free, the faulting page is in
\* and another page went out
C11_Witness ==
    /\ sim.total_frames >= 1
    /\ sim.page_faults = sim.total_frames + 1
    /\ sim.memory_accesses = sim.page_faults
    /\ Cardinality({p \in DOMAIN sim.page_table : sim.page_table[p].valid}) = sim.total_frames

(***************************************************************************)
(* Thrashing detection                                                     *)
(***************************************************************************)
\* the sum of the working-set sizes: the number of (process, page) pairs
\* with the page in the process's working set
working_set_sum(w) ==
    Cardinality(UNION {{<<pid, p>> : p \in w.processes[pid].working_set}
                          : pid \in DOMAIN w.processes})

\* C12: detect_thrashing returns true iff the sum of the working-set sizes of
\* all tracked processes is strictly greater than total_frames (true at
\* total_frames + 1, false at total_frames), and it changes no tracker state.
C12_ThrashingBoundary ==
    [][ws_last'.op = "detect_thrashing"
       => /\ ws' = ws
          /\ ws_last'.thrashing <=> working_set_sum(ws) > ws.total_frames
          /\ working_set_sum(ws) = ws.total_frames + 1 => ws_last'.thrashing
          /\ working_set_sum(ws) = ws.total_frames => ~ws_last'.thrashing]_vars

\* thrashing reported with the sum one above the frame count, several
\* processes contributing
C12_Witness ==
    /\ ws_last.op = "detect_thrashing"
    /\ ws_last.thrashing
    /\ ws.total_frames >= 1
    /\ working_set_sum(ws) = ws.total_frames + 1
    /\ Cardinality({pid \in DOMAIN ws.processes : ws.processes[pid].working_set # {}}) >= 2

(***************************************************************************)
(* Invalid frees and failed allocations                                    *)
(***************************************************************************)
\* address a is not currently allocated in b: it is no key of
\* allocated_blocks (never handed out, or freed and deleted), or its memory
\* is already back in a free block
not_allocated(b, a) ==
    \/ a \notin DOMAIN b.allocated_blocks
    \/ free_cover(b, 0, a) > 0

\* C13: free(addr) of an address that is not currently allocated (never
\* allocated, or already freed) is rejected and leaves the free lists and
\* allocated_blocks unchanged.
C13_InvalidFreeRejected ==
    (buddy_last.op = "free" /\ not_allocated(buddy_last.before, buddy_last.arg))
    => /\ buddy.free_lists = buddy_last.before.free_lists
       /\ buddy.allocated_blocks = buddy_last.before.allocated_blocks
       /\ buddy_last.raised = ""

\* ceil(log2(size)) for size >= 1: the least k with 2^k >= size
ceil_log2(size) == CHOOSE k \in 0..size : shl1(k) >= size /\ \A j \in 0..(k - 1) : shl1(j) < size

\* C14: allocate(size) fails exactly when no free block of order
\* >= ceil(log2(size)) exists (a size above the total memory included), and a
\* failed allocate leaves the allocator state unchanged.
C14_AllocateFailsIffNoBlock ==
    buddy_last.op = "allocate"
    => LET b == buddy_last.before
           k == ceil_log2(buddy_last.arg)
       IN /\ buddy_last.result = None
             <=> \A j \in k..b.max_order : b.free_lists[j + 1] = <<>>
          /\ buddy_last.result = None => buddy = b
          /\ buddy_last.raised = ""

\* a request no larger than the total memory fails while smaller blocks are free
C14_Witness ==
    /\ buddy_last.op = "allocate"
    /\ buddy_last.result = None
    /\ buddy_last.arg <= buddy.total_memory
    /\ buddy = buddy_last.before
    /\ \E j \in 0..buddy.max_order : buddy.free_lists[j + 1] # <<>>

(***************************************************************************)
(* Rejected configurations and victim selection without resident pages     *)
(***************************************************************************)
\* C15: a paging engine constructed with zero or negative frames (likewise a
\* negative page number, or a buddy allocator with zero or negative memory)
\* is rejected with InvalidConfiguration before any state is mutated: no
\* engine with total_frames <= 0 exists that was not rejected.
C15_InvalidConfigurationRejected ==
    sim.total_frames <= 0 => sim.raised = "InvalidConfiguration"

\* C16: when a victim has to be selected while no page is resident (an engine
\* with total_frames = 0), every policy reports a fatal error: no page fault
\* is counted there with the call completing silently.
C16_NoVictimIsFatal ==
    [][(sim.total_frames = 0 /\ sim'.page_faults = sim.page_faults + 1)
       => sim'.raised # ""]_vars

(***************************************************************************)
(* Copy-on-write: fork_process and the three branches of write_to_page     *)
(***************************************************************************)
\* the page table of pid in c, empty when pid has none
table_of(c, pid) == IF pid \in DOMAIN c.process_pages THEN c.process_pages[pid] ELSE <<>>

\* C17: fork_process(parent, child) copies no data: it adds no shared page
\* and changes no payload; for every page the parent maps when it is called,
\* the child's entry points to the same shared page as the parent's, and each
\* page's ref_count is incremented by exactly one per new child entry.
C17_ForkSharesPages ==
    cow_last.op = "fork_process"
    => LET b == cow_last.before
           parent == table_of(b, cow_last.page_num)
           child == table_of(cow, cow_last.pid)
       IN /\ DOMAIN cow.shared_pages = DOMAIN b.shared_pages
          /\ \A ptr \in DOMAIN b.shared_pages :
                /\ cow.shared_pages[ptr].data = b.shared_pages[ptr].data
                /\ cow.shared_pages[ptr].ref_count
                      = b.shared_pages[ptr].ref_count + pointing(child, ptr)
          /\ \A n \in DOMAIN parent :
                n \in DOMAIN child /\ child[n].data_ptr = parent[n].data_ptr

\* every entry of every page table except pid's entry for page_num is as in b
other_entries_unchanged(b, c, pid, page_num) ==
    /\ DOMAIN c.process_pages = DOMAIN b.process_pages
    /\ \A q \in DOMAIN b.process_pages :
          /\ DOMAIN c.process_pages[q] = DOMAIN b.process_pages[q]
          /\ \A n \in DOMAIN b.process_pages[q] :
                (q # pid \/ n # page_num) => c.process_pages[q][n] = b.process_pages[q][n]

\* pid has an entry for page_num in c, and it has a data_ptr
has_target(c, pid, page_num) ==
    /\ pid \in DOMAIN c.process_pages
    /\ page_num \in DOMAIN c.process_pages[pid]
    /\ c.process_pages[pid][page_num].data_ptr # None

\* C18: write_to_page(pid, page, data) on an entry whose shared page has
\* ref_count > 1 decrements that page's ref_count by one, creates a new shared
\* page with a fresh id and ref_count 1 and repoints only the writer's entry
\* to it; the old page's payload, every other shared page and every other
\* entry are unchanged.
C18_CopyOnSharedWrite ==
    LET b == cow_last.before
        pid == cow_last.pid
        page_num == cow_last.page_num
    IN (/\ cow_last.op = "write_to_page"
        /\ has_target(b, pid, page_num)
        /\ b.process_pages[pid][page_num].data_ptr \in DOMAIN b.shared_pages
        /\ b.shared_pages[b.process_pages[pid][page_num].data_ptr].ref_count > 1)
       => LET ptr == b.process_pages[pid][page_num].data_ptr
              fresh == cow.process_pages[pid][page_num].data_ptr
          IN /\ fresh \notin DOMAIN b.shared_pages
             /\ DOMAIN cow.shared_pages = DOMAIN b.shared_pages \cup {fresh}
             /\ cow.shared_pages[fresh].ref_count = 1
             /\ cow.shared_pages[ptr].ref_count = b.shared_pages[ptr].ref_count - 1
             /\ cow.shared_pages[ptr].data = b.shared_pages[ptr].data
             /\ \A other \in DOMAIN b.shared_pages \ {ptr} :
                   cow.shared_pages[other] = b.shared_pages[other]
             /\ other_entries_unchanged(b, cow, pid, page_num)

\* a copy was made while another process still points to the old page
C18_Witness ==
    /\ cow_last.op = "write_to_page"
    /\ cow_last.branch = "copy"
    /\ \E q \in DOMAIN cow.process_pages \ {cow_last.pid} :
          /\ cow_last.page_num \in DOMAIN cow.process_pages[q]
          /\ cow.process_pages[q][cow_last.page_num].data_ptr
                = cow_last.before.process_pages[cow_last.pid][cow_last.page_num].data_ptr
          /\ cow.process_pages[q][cow_last.page_num].data_ptr
                # cow.process_pages[cow_last.pid][cow_last.page_num].data_ptr

\* C19: write_to_page on an entry whose shared page has ref_count = 1 mutates
\* that page's payload in place: no shared page is created or removed, no
\* ref_count changes and no entry is repointed.
C19_DirectWriteInPlace ==
    LET b == cow_last.before
        pid == cow_last.pid
        page_num == cow_last.page_num
    IN (/\ cow_last.op = "write_to_page"
        /\ has_target(b, pid, page_num)
        /\ b.process_pages[pid][page_num].data_ptr \in DOMAIN b.shared_pages
        /\ b.shared_pages[b.process_pages[pid][page_num].data_ptr].ref_count = 1)
       => LET ptr == b.process_pages[pid][page_num].data_ptr
          IN /\ DOMAIN cow.shared_pages = DOMAIN b.shared_pages
             /\ cow.shared_pages[ptr].data = <<cow_last.new_data>>
             /\ \A other \in DOMAIN b.shared_pages :
                   /\ cow.shared_pages[other].ref_count = b.shared_pages[other].ref_count
                   /\ other # ptr => cow.shared_pages[other].data = b.shared_pages[other].data
             /\ cow.process_pages = b.process_pages

\* an exclusively owned page was written and its payload is now another one
C19_Witness ==
    /\ cow_last.op = "write_to_page"
    /\ cow_last.branch = "direct write"
    /\ LET ptr == cow.process_pages[cow_last.pid][cow_last.page_num].data_ptr
       IN /\ cow_last.before.shared_pages[ptr].ref_count = 1
          /\ cow.shared_pages[ptr].data # cow_last.before.shared_pages[ptr].data

\* pid's entry for page_num in c has no shared target: no data_ptr, or no
\* entry at all
no_shared_target(c, pid, page_num) == ~has_target(c, pid, page_num)

\* write_to_page created a shared page for the written data and pointed
\* pid's entry for page_num at it
created_target(b, c, pid, page_num, new_data) ==
    /\ has_target(c, pid, page_num)
    /\ LET np == c.process_pages[pid][page_num].data_ptr
       IN /\ np \notin DOMAIN b.shared_pages
          /\ DOMAIN c.shared_pages = DOMAIN b.shared_pages \cup {np}
          /\ c.shared_pages[np] = [data |-> <<new_data>>, ref_count |-> 1]
          /\ \A other \in DOMAIN b.shared_pages : c.shared_pages[other] = b.shared_pages[other]

\* C20 as stated: for any pid and page_number whose entry has no shared
\* target yet, write_to_page creates a new shared page holding the written
\* data with ref_count 1 and points the process's entry at it.
C20_AnyEntryGetsTarget ==
    (cow_last.op = "write_to_page"
        /\ no_shared_target(cow_last.before, cow_last.pid, cow_last.page_num))
    => created_target(cow_last.before, cow, cow_last.pid, cow_last.page_num,
                      cow_last.new_data)

\* C20 amended: when the process has an entry for page_number and the entry
\* has no shared target yet, write_to_page creates a new shared page holding
\* the written data with ref_count 1 and points that entry at it, all other
\* entries unchanged; when the process has no entry for page_number the call
\* changes nothing.
C20_MappedEntryGetsTarget ==
    LET b == cow_last.before
        pid == cow_last.pid
        page_num == cow_last.page_num
    IN (cow_last.op = "write_to_page" /\ no_shared_target(b, pid, page_num))
       => IF page_num \in DOMAIN table_of(b, pid)
          THEN /\ created_target(b, cow, pid, page_num, cow_last.new_data)
               /\ other_entries_unchanged(b, cow, pid, page_num)
          ELSE cow = b

\* a forked child wrote a page whose entry had no data_ptr, other shared
\* pages being in the table
C20_Witness ==
    /\ cow_last.op = "write_to_page"
    /\ cow_last.branch = "new page"
    /\ cow_last.pid # 1
    /\ cow_last.before.shared_pages # <<>>
    /\ created_target(cow_last.before, cow, cow_last.pid, cow_last.page_num,
                      cow_last.new_data)

\* C21: a shared page whose ref_count drops to 0 is removed from the table in
\* the same operation: after any fork_process or write_to_page call no shared
\* page with ref_count 0 remains in the table and no process entry points to
\* a page that is not in the table.
C21_NoEmptyOrDanglingPage ==
    /\ \A ptr \in DOMAIN cow.shared_pages : cow.shared_pages[ptr].ref_count # 0
    /\ \A pid \in DOMAIN cow.process_pages : \A n \in DOMAIN cow.process_pages[pid] :
          cow.process_pages[pid][n].data_ptr # None
          => cow.process_pages[pid][n].data_ptr \in DOMAIN cow.shared_pages

\* a copying write has just decremented the ref_count of a page that two
\* entries or more shared, and every entry with a data_ptr is still served
C21_Witness ==
    /\ cow_last.op = "write_to_page"
    /\ cow_last.branch = "copy"
    /\ LET ptr == cow_last.before.process_pages[cow_last.pid][cow_last.page_num].data_ptr
       IN /\ ptr \in DOMAIN cow.shared_pages
          /\ cow.shared_pages[ptr].ref_count = 1
          /\ cow_last.before.shared_pages[ptr].ref_count = 2

(***************************************************************************)
(* Buddy allocator: what free and allocate do to the lists                 *)
(***************************************************************************)
\* C22: after free(b) of a currently allocated block b, b is no longer in
\* allocated_blocks and b has been merged with its buddy (address XOR
\* 2^order) for as long as that buddy is in the same order's free list, the
\* final block being in the free list of its final order; whether b is the
\* lower- or the higher-addressed buddy.
C22_FreeMergesAndReleases ==
    (buddy_last.op = "free" /\ ~not_allocated(buddy_last.before, buddy_last.arg))
    => LET b == buddy_last.before
           m == coalesce(b.free_lists, b.max_order, buddy_last.arg,
                         b.allocated_blocks[buddy_last.arg].order)
       IN /\ buddy_last.arg \notin DOMAIN buddy.allocated_blocks
          /\ buddy_last.raised = ""
          /\ m.block \in Range(buddy.free_lists[m.order + 1])
          /\ m.order < b.max_order
             => xor_bit(m.block, m.order) \notin Range(buddy.free_lists[m.order + 1])

\* the smallest order >= k whose free list in b is not empty
smallest_free_order(b, k) ==
    CHOOSE j \in k..b.max_order :
        /\ b.free_lists[j + 1] # <<>>
        /\ \A o \in k..(j - 1) : b.free_lists[o + 1] = <<>>

\* C23: a successful allocate(size) returns a block of size 2^k, k the
\* smallest order with 2^k >= size; the block is taken from the smallest
\* non-empty free list of order >= k, and every order split through gets
\* exactly one buddy (address XOR 2^order) pushed onto its free list, the
\* other half being kept; the other free lists are untouched.
C23_AllocateSplits ==
    (buddy_last.op = "allocate" /\ buddy_last.result # None)
    => LET b == buddy_last.before
           block == buddy_last.result
           k == ceil_log2(buddy_last.arg)
           j == smallest_free_order(b, k)
       IN /\ block \in DOMAIN buddy.allocated_blocks
          /\ buddy.allocated_blocks[block] = [size |-> shl1(k), order |-> k]
          /\ block \in Range(b.free_lists[j + 1])
          /\ \A o \in 0..b.max_order :
                buddy.free_lists[o + 1] =
                    IF o = j THEN remove(b.free_lists[o + 1], block)
                    ELSE IF k <= o /\ o < j
                    THEN Append(b.free_lists[o + 1], xor_bit(block, o))
                    ELSE b.free_lists[o + 1]

\* a request was served from a block two orders up or more: two splits
C23_Witness ==
    /\ buddy_last.op = "allocate"
    /\ buddy_last.result # None
    /\ smallest_free_order(buddy_last.before, ceil_log2(buddy_last.arg))
          >= ceil_log2(buddy_last.arg) + 2
    /\ Len(buddy.free_lists[ceil_log2(buddy_last.arg) + 1]) = 1
    /\ Len(buddy.free_lists[ceil_log2(buddy_last.arg) + 2]) = 1

(***************************************************************************)
(* The working-set window                                                  *)
(***************************************************************************)
\* the last n elements of seq, all of it when it is shorter
last_n(seq, n) == IF Len(seq) <= n THEN seq ELSE SubSeq(seq, Len(seq) - n + 1, Len(seq))

\* C24: after each simulated access the process's window holds its most
\* recent min(n, delta) page references in order (the oldest one evicted once
\* the window is full), and its working set is the set of distinct pages in
\* the window, so the working-set size never exceeds delta.
C24_WindowIsRecentReferences ==
    [][\A pid \in WsPids :
          (/\ ws_last'.op = "simulate_access"
           /\ ws_last'.pid = pid
           /\ ws_last'.raised = ""
           /\ ws'.time = ws.time + 1)
          => LET process == ws'.processes[pid]
             IN /\ process.access_history
                      = last_n(Append(ws.processes[pid].access_history, ws_last'.page),
                               ws.delta)
                /\ process.working_set
                      = {process.access_history[i] : i \in 1..Len(process.access_history)}
                /\ Cardinality(process.working_set) <= ws.delta]_vars

\* the window is full of distinct pages after more than delta accesses: the
\* oldest reference has been evicted and the working-set size is delta
C24_Witness ==
    /\ ws_last.op = "simulate_access"
    /\ ws_last.raised = ""
    /\ ws.time > ws.delta
    /\ Len(ws.processes[ws_last.pid].access_history) = ws.delta
    /\ Cardinality(ws.processes[ws_last.pid].working_set) = ws.delta

(***************************************************************************)
(* Statistics                                                              *)
(***************************************************************************)
\* pairs <<access time, fault service time>> a caller configures an engine
\* with, in ns: the values of the lecture and a faster disk
TimeConstants == {<<200, 8000000>>, <<200, 1000000>>}

\* C25: after n access_page calls memory_accesses = n and page_faults is the
\* number of calls that found the page non-resident (so page_faults <=
\* memory_accesses), and the reported effective access time is
\* (1 - f) * access_time + f * fault_service_time, f = page_faults /
\* memory_accesses, for the access time and fault service time the engine was
\* configured with.
C25_StatisticsUseSuppliedConstants ==
    /\ sim.page_faults <= sim.memory_accesses
    /\ print_statistics(sim).memory_accesses = sim.memory_accesses
    /\ sim.memory_accesses > 0
       => \A c \in TimeConstants :
             print_statistics(sim).eat
                = effective_access_time(sim.memory_accesses, sim.page_faults, c[1], c[2])

(***************************************************************************)
(* Victim selection.  allocated_frames is a dict the frame is deleted from *)
(* at eviction and re-inserted into at the next load, so its iteration     *)
(* order, pages_of, lists the resident pages from the earliest load of     *)
(* the current residency to the latest.                                    *)
(***************************************************************************)
\* the pages resident in s and no longer resident in t
evicted(s, t) ==
    {p \in DOMAIN s.page_table : s.page_table[p].valid /\ ~t.page_table[p].valid}

\* C26: under FIFO, whenever a replacement occurs the victim is the resident
\* page that has been continuously resident the longest; a hit on a resident
\* page changes neither the queue nor the arrival order.
C26_FifoEvictsLongestResident ==
    [][(sim.algorithm = "FIFO" /\ sim'.memory_accesses = sim.memory_accesses + 1)
       => /\ \A victim \in evicted(sim, sim') :
                /\ victim = pages_of(sim)[1]
                /\ evicted(sim, sim') = {victim}
                /\ Tail(pages_of(sim)) = SubSeq(pages_of(sim'), 1, Len(pages_of(sim')) - 1)
          /\ sim'.page_faults = sim.page_faults
             => /\ sim'.fifo_queue = sim.fifo_queue
                /\ pages_of(sim') = pages_of(sim)]_vars

\* with two frames a page was hit while resident and was still the one
\* replaced at the next fault with no free frame
C26_Witness ==
    /\ sim.algorithm = "FIFO"
    /\ sim.total_frames = 2
    /\ sim.memory_accesses = 4
    /\ sim.page_faults = 3
    /\ \E p \in DOMAIN sim.page_table :
          ~sim.page_table[p].valid /\ sim.page_table[p].access_count = 2

\* the resident pages of s
resident(s) == {p \in DOMAIN s.page_table : s.page_table[p].valid}

\* the lowest-numbered page of a non-empty set of pages
lowest(S) == CHOOSE p \in S : \A q \in S : p <= q

\* C27: under LRU, for any sequence of access_page calls, direct or through
\* run_simulation, the victim is the resident page with the smallest
\* last-access timestamp, and on a tie the tied page with the lowest page
\* number.  The faulting page is not resident, so the timestamps compared are
\* those the resident pages had before the call.
C27_LruEvictsOldestLowestPage ==
    [][(sim.algorithm = "LRU" /\ sim'.memory_accesses = sim.memory_accesses + 1)
       => \A victim \in evicted(sim, sim') :
             victim = lowest({p \in resident(sim) :
                                \A q \in resident(sim) :
                                   sim.page_table[p].last_access_time
                                      <= sim.page_table[q].last_access_time})]_vars

\* the references that follow position i (0-based) of reference string ref
future_after(ref, i) == SubSeq(ref, i + 2, Len(ref))

\* C28: under Optimal, at a replacement occurring at position i of the
\* reference string the victim is a resident page that is never referenced
\* after position i if there is one, otherwise the resident page whose next
\* reference after position i is the farthest away.
C28_OptimalEvictsFarthestNextUse ==
    [][\A c \in Configs :
          (c[2] = "OPTIMAL" /\ step >= 0 /\ step' = step + 1)
          => \A victim \in evicted(sims[c], sims'[c]) :
                LET future == future_after(reference_string, step)
                    residents == resident(sims[c])
                IN IF \E p \in residents : p \notin Range(future)
                   THEN victim \notin Range(future)
                   ELSE \A q \in residents : index(future, victim) >= index(future, q)]_vars

\* C29: under Clock the scan pointer moves circularly over the resident
\* frames in a fixed frame order, and after a replacement the next scan
\* starts at the frame immediately after the victim's frame, so that no
\* resident frame is skipped or visited twice between two replacements:
\* after a replacement the frame under the hand is the successor of the
\* victim's frame and the order of the frames is the one before it.
C29_ClockResumesAfterVictim ==
    [][(sim.algorithm = "CLOCK" /\ sim'.memory_accesses = sim.memory_accesses + 1)
       => \A victim \in evicted(sim, sim') :
             /\ frames_of(sim') = frames_of(sim)
             /\ frames_of(sim')[sim'.clock_hand + 1]
                   = (sim.page_table[victim].frame_number + 1) % sim.total_frames]_vars

\* C30: under LFU the victim is the resident page with the smallest access
\* count and under MFU the one with the largest access count; when several
\* resident pages tie on the count, the victim is the tied page with the
\* lowest page number.
C30_FrequencyVictimLowestPage ==
    [][(sim.algorithm \in {"LFU", "MFU"} /\ sim'.memory_accesses = sim.memory_accesses + 1)
       => \A victim \in evicted(sim, sim') :
             victim = lowest({p \in resident(sim) :
                                \A q \in resident(sim) :
                                   IF sim.algorithm = "LFU"
                                   THEN sim.page_table[p].access_count
                                           <= sim.page_table[q].access_count
                                   ELSE sim.page_table[p].access_count
                                           >= sim.page_table[q].access_count})]_vars

(***************************************************************************)
(* The modified flag                                                       *)
(***************************************************************************)
\* the pages not resident in s and resident in t
loaded(s, t) ==
    {p \in DOMAIN t.page_table :
        t.page_table[p].valid /\ (p \in DOMAIN s.page_table => ~s.page_table[p].valid)}

\* is_write of the reference run_simulation is about to issue
next_is_write ==
    IF run.writes # <<>> /\ run.i < Len(run.writes) THEN run.writes[run.i + 1] ELSE FALSE

\* C31: a resident page's modified flag is true exactly when the page has
\* been written since it was last loaded into a frame (so the write-back
\* notice at eviction is issued iff the victim was written during its current
\* residency): a page that a reference of run_simulation loads has the
\* flag equal to that reference's is_write.
C31_ModifiedSinceLoad ==
    [][run.active
       => \A p \in loaded(sim, sim') : sim'.page_table[p].modified = next_is_write]_vars

(***************************************************************************)
(* Reference counts when every fork creates a new process                  *)
(***************************************************************************)
\* C32: when every fork_process uses a child id that has no page table yet
\* and differs from the parent id, every shared page in the table has
\* ref_count equal to the number of entries pointing to it, that number is at
\* least 1, and no call removes a shared page (the ref_count = 0 branch of
\* write_to_page is never taken).
C32_FreshForksKeepCounts ==
    /\ \A ptr \in DOMAIN cow.shared_pages :
          /\ cow.shared_pages[ptr].ref_count = fan_in(cow, ptr)
          /\ fan_in(cow, ptr) >= 1
    /\ cow_last.op # "init"
       => DOMAIN cow_last.before.shared_pages \subseteq DOMAIN cow.shared_pages

\* two children were forked and one of them wrote a page the three
\* processes shared: the old page is left with two referrers
C32_Witness ==
    /\ cow_last.op = "write_to_page"
    /\ cow_last.branch = "copy"
    /\ \E ptr \in DOMAIN cow.shared_pages :
          cow.shared_pages[ptr].ref_count = 2 /\ fan_in(cow, ptr) = 2

(***************************************************************************)
(* Buddy allocator: freeing everything, and coalescing                     *)
(***************************************************************************)
\* C33: starting from a fresh allocator, after any sequence of allocations
\* followed by freeing every outstanding block in any order, every free call
\* completes without error, and once allocated_blocks is empty the free
\* lists hold exactly one block, address 0 at the maximum order.
C33_DrainRestoresTopBlock ==
    buddy_last.op = "free"
    => /\ buddy_last.raised = ""
       /\ buddy.allocated_blocks = <<>>
          => buddy.free_lists = BuddySystemAllocator(buddy.total_memory).free_lists

\* C34: after every allocate or free call no order's free list contains both
\* a block and its buddy (address XOR 2^order), the top order having no
\* buddies, and no address appears twice in a free list.
C34_MaximallyCoalesced ==
    \A o \in 0..buddy.max_order :
        LET list == buddy.free_lists[o + 1]
        IN /\ \A i, j \in 1..Len(list) : i # j => list[i] # list[j]
           /\ o < buddy.max_order
              => \A i \in 1..Len(list) : xor_bit(list[i], o) \notin Range(list)

(***************************************************************************)
(* Resident set size and fault counts                                      *)
(***************************************************************************)
Min(a, b) == IF a <= b THEN a ELSE b

\* C35: for every policy and every frame count >= 1, after any sequence of
\* access_page calls the number of resident pages is min(total_frames,
\* number of distinct pages referenced so far); a page is evicted only when
\* no frame is free, and the faulting page then receives exactly the victim's
\* frame.
C35_ResidentCount ==
    [][sim.total_frames >= 1
       => /\ Cardinality(resident(sim'))
                = Min(sim'.total_frames, Cardinality(DOMAIN sim'.page_table))
          /\ \A victim \in evicted(sim, sim') :
                /\ sim.free_frames = <<>>
                /\ loaded(sim, sim') # {}
                /\ \A p \in loaded(sim, sim') :
                      sim'.page_table[p].frame_number = sim.page_table[victim].frame_number]_vars

\* a two-frame Clock engine has been referenced on three distinct pages
C35_Witness ==
    /\ sim.algorithm = "CLOCK"
    /\ sim.total_frames = 2
    /\ Cardinality(DOMAIN sim.page_table) = 3
    /\ Cardinality(resident(sim)) = 2
    /\ sim.page_faults >= 3

\* C36: for every policy, when total_frames is at least the number of
\* distinct pages referenced, the number of page faults equals the number of
\* distinct pages (first-reference faults only, no replacement runs); for any
\* frame count the fault count is at least the number of distinct pages.
C36_FaultsAndDistinctPages ==
    [][LET distinct == Cardinality(DOMAIN sim'.page_table)
       IN /\ sim'.page_faults >= distinct
          /\ sim'.total_frames >= distinct
             => /\ sim'.page_faults = distinct
                /\ evicted(sim, sim') = {}]_vars

\* two distinct pages were referenced four times in two frames: two faults
C36_Witness ==
    /\ sim.total_frames = 2
    /\ Cardinality(DOMAIN sim.page_table) = 2
    /\ sim.memory_accesses = 4
    /\ sim.page_faults = 2

(***************************************************************************)
(* Slab allocation                                                         *)
(***************************************************************************)
\* C37: allocate_object(cache_name, data) on an existing cache returns a slot
\* of a slab whose name is cache_name, never a slot of a slab that was
\* created for another cache.
C37_SlotOfNamedCache ==
    (slab_last.op = "allocate_object" /\ slab_last.slab # None)
        => slabs.heap[slab_last.slab].name = slab_last.cache_name

\* number of positions of list state that hold slab id
filed(state, id) == Cardinality({k \in 1..Len(state) : state[k] = id})

\* number of slots of the slab that are marked free
free_slots(slab) == Cardinality({i \in 1..Len(slab.objects) : slab.objects[i].free})

\* C38: after any sequence of create_cache, allocate_object and free_object
\* calls (each free on an allocated slot) every slab is in exactly one of the
\* full, partial and empty lists, its free_count is the number of its slots
\* marked free, and it is in full iff free_count = 0, in empty iff
\* free_count is its slot count, and in partial otherwise.
C38_SlabListsMatchFreeCount ==
    \A id \in 1..Len(slabs.heap) :
        LET slab == slabs.heap[id]
            ss == slabs.slab_states
        IN  /\ filed(ss.full, id) + filed(ss.empty, id) + filed(ss.partial, id) = 1
            /\ slab.free_count = free_slots(slab)
            /\ filed(ss.full, id) = 1 <=> slab.free_count = 0
            /\ filed(ss.empty, id) = 1 <=> slab.free_count = Len(slab.objects)
            /\ filed(ss.partial, id) = 1
                   <=> (slab.free_count # 0 /\ slab.free_count # Len(slab.objects))

(***************************************************************************)
(* The FIFO queue                                                          *)
(***************************************************************************)
\* C39: under FIFO, after every access_page call fifo_queue holds exactly the
\* page numbers of the resident pages, each once, in the order of their
\* current loads: the pages that stay resident keep their order and the page
\* just loaded is at the tail.
C39_FifoQueueIsResidentInLoadOrder ==
    [][sim'.algorithm = "FIFO"
       => LET q == sim'.fifo_queue
              stays(p) == p \notin evicted(sim, sim')
              arrived == Cardinality(loaded(sim, sim'))
          IN  /\ Range(q) = resident(sim')
              /\ Len(q) = Cardinality(resident(sim'))
              /\ arrived <= 1
              /\ SubSeq(q, 1, Len(q) - arrived) = SelectSeq(sim.fifo_queue, stays)
              /\ \A p \in loaded(sim, sim') : q[Len(q)] = p]_vars

\* two frames, a third page has replaced the first one loaded
C39_Witness ==
    /\ sim.algorithm = "FIFO"
    /\ sim.total_frames = 2
    /\ sim.page_faults = 3
    /\ sim.fifo_queue = <<1, 2>>
    /\ 0 \in DOMAIN sim.page_table
    /\ ~sim.page_table[0].valid

(***************************************************************************)
(* The Clock scan                                                          *)
(***************************************************************************)
\* number of frame slots the while loop of clock_replacement examines from
\* state s on, the victim's slot included
RECURSIVE clock_examined(_)
clock_examined(s) ==
    LET frames == frames_of(s)
        frame == frames[s.clock_hand + 1]
        page == (CHOOSE e \in Range(s.allocated_frames) : e.frame = frame).page
    IN IF ~s.page_table[page].referenced
       THEN 1
       ELSE 1 + clock_examined([s EXCEPT !.page_table[page].referenced = FALSE,
                                         !.clock_hand = (s.clock_hand + 1) % Len(frames)])

\* C40: whenever clock_replacement runs with N >= 1 resident frames, the scan
\* ends with a victim after examining at most 2N frame slots and clearing at
\* most N reference bits, and clock_hand is within 0..N-1 before and after
\* the call.
C40_ClockScanBounded ==
    [][(/\ sim.algorithm = "CLOCK"
        /\ sim'.memory_accesses = sim.memory_accesses + 1
        /\ sim'.page_faults = sim.page_faults + 1
        /\ sim.free_frames = <<>>
        /\ Len(sim.allocated_frames) >= 1)
       => LET N == Len(sim.allocated_frames)
              cleared == {p \in resident(sim) :
                             /\ sim.page_table[p].referenced
                             /\ ~sim'.page_table[p].referenced}
          IN  /\ sim.clock_hand \in 0..(N - 1)
              /\ sim'.raised = ""
              /\ Cardinality(evicted(sim, sim')) = 1
              /\ clock_examined(sim) <= 2 * N
              /\ Cardinality(cleared) <= N
              /\ Cardinality(cleared) = clock_examined(sim) - 1
              /\ sim'.clock_hand \in 0..(N - 1)]_vars

\* a full sweep: both resident pages were referenced, the scan cleared both
\* bits and came back to evict the page under the hand
C40_Witness ==
    /\ sim.algorithm = "CLOCK"
    /\ sim.total_frames = 2
    /\ sim.memory_accesses = 3
    /\ sim.page_faults = 3
    /\ sim.clock_hand = 1
    /\ \E p \in resident(sim) : ~sim.page_table[p].referenced

=============================================================================
